---- MODULE Spec2Model ----
(***************************************************************************)
(* Model of the hypervisor loader's start path (loader/src/start_vmm.c):   *)
(* start_vmm, verify_start_vmm_args and alloc_and_start_the_vmm, together  *)
(* with the platform port, the release functions and the stop path they    *)
(* call.                                                                   *)
(***************************************************************************)
EXTENDS Integers, Sequences, FiniteSets, TLC

\* ------------------------------------------------------------------ bounds

\* number of logical processors the platform fans out over
NumCpus == 2
\* largest value the debug ring's producer cursor takes in the model
MaxEpos == 1
\* HYPERVISOR_MAX_EXTENSIONS (constants.h)
HYPERVISOR_MAX_EXTENSIONS == 2
\* HYPERVISOR_MAX_ELF_FILE_SIZE (constants.h), scaled down
HYPERVISOR_MAX_ELF_FILE_SIZE == 2

\* the page counts 0 .. MaxPageCount are tried on the pool allocators, next
\* to the counts at the edges of the parameter's type
MaxPageCount == 4

\* the largest number of 8-byte entries the limit of a descriptor table covers
GdtEntries == 4

\* BAREFLANK_PAGE_SIZE (bfconstants.h), scaled down
BAREFLANK_PAGE_SIZE == 4
\* the largest number of backing pages an object allocator is taken to
MaxPages == 2
\* the largest number of objects held at a time by the users of an allocator
MaxOutstanding == 3
\* the largest number of mappings held by one EPT map
MaxMappings == 1
\* the debug rings allocated over a run, and the calls of free_mk_debug_ring
MaxRings == 3
MaxFreeCalls == 6

\* --------------------------------------------------------------- constants

NULL == 0
LOADER_SUCCESS == 0
LOADER_FAILURE == -1
HYPERVISOR_PAGE_SIZE == 4096
HYPERVISOR_HUGE_POOL_SIZE == 2 * HYPERVISOR_PAGE_SIZE
HYPERVISOR_PAGE_POOL_SIZE == 4 * HYPERVISOR_PAGE_SIZE

VMM_STATUS_STOPPED == "VMM_STATUS_STOPPED"
VMM_STATUS_RUNNING == "VMM_STATUS_RUNNING"
VMM_STATUS_CORRUPT == "VMM_STATUS_CORRUPT"

PLATFORM_FORWARD == "PLATFORM_FORWARD"
PLATFORM_REVERSE == "PLATFORM_REVERSE"

Cpus == 0 .. (NumCpus - 1)

\* the resources alloc_and_start_the_vmm acquires, in acquisition order
Resources ==
    << "mk_root_page_table", "mk_elf_file", "ext_elf_files",
       "mk_elf_segments", "mk_page_pool", "mk_huge_pool" >>

ResourceSet == { Resources[i] : i \in 1 .. Len(Resources) }

\* the mappings alloc_and_start_the_vmm installs, in mapping order
Mappings ==
    << "mk_debug_ring", "mk_code_aliases", "mk_elf_file", "ext_elf_files",
       "mk_elf_segments", "mk_page_pool", "mk_huge_pool" >>

MappingSet == { Mappings[i] : i \in 1 .. Len(Mappings) }

\* the steps of alloc_and_start_the_vmm that can fail, in program order
Steps ==
    << "alloc_mk_root_page_table", "alloc_and_copy_mk_elf_file_from_user",
       "alloc_and_copy_ext_elf_files_from_user",
       "alloc_and_copy_mk_elf_segments", "alloc_mk_page_pool",
       "alloc_mk_huge_pool", "map_mk_debug_ring", "map_mk_code_aliases",
       "map_mk_elf_file", "map_ext_elf_files", "map_mk_elf_segments",
       "map_mk_page_pool", "map_mk_huge_pool", "platform_on_each_cpu" >>

\* the release function of each resource, indexed as Resources
FreeFns ==
    << "free_mk_root_page_table", "free_mk_elf_file", "free_ext_elf_files",
       "free_mk_elf_segments", "free_mk_page_pool", "free_mk_huge_pool" >>

ResourceIndex(r) == CHOOSE i \in 1 .. Len(Resources) : Resources[i] = r

FreeFn(r) == FreeFns[ResourceIndex(r)]

NullSpan == [addr |-> NULL, size |-> 0]

\* ------------------------------------------------------------ StartArgs

ExtIndexes == 0 .. (HYPERVISOR_MAX_EXTENSIONS - 1)

SpanValues(addrs, sizes) == [addr : addrs, size : sizes]

\* every start_vmm_args_t record within the bounds of the model
StartArgsDomain ==
    [ ver : 0 .. 2,
      mk_elf_file : SpanValues({NULL, 1}, 0 .. (HYPERVISOR_MAX_ELF_FILE_SIZE + 1)),
      ext_elf_files :
          [ExtIndexes -> SpanValues({NULL, 1}, 0 .. (HYPERVISOR_MAX_ELF_FILE_SIZE + 1))],
      page_pool_size : {0, 1} ]

\* the records user space hands to start_vmm in the lifecycle model: a good
\* or bad version, microkernel file and first extension, the later extension
\* slots all empty or all in use
UserRecords ==
    { [ ver |-> v, mk_elf_file |-> mk,
        ext_elf_files |-> [i \in ExtIndexes |-> IF i = 0 THEN e0 ELSE en],
        page_pool_size |-> n ] :
      v \in {1, 2},
      mk \in { [addr |-> 1, size |-> 1], NullSpan },
      e0 \in { [addr |-> 1, size |-> 1], [addr |-> NULL, size |-> 1] },
      en \in { [addr |-> 1, size |-> 1], NullSpan },
      n \in {0, 1} }

\* the value of the local `args` outside a call
NoArgs ==
    [ ver |-> 0, mk_elf_file |-> NullSpan,
      ext_elf_files |-> [i \in ExtIndexes |-> NullSpan],
      page_pool_size |-> 0 ]

\* what the pointer handed to start_vmm designates: nothing (a null
\* pointer), memory that faults when copied from, or a record
NullPointer == [kind |-> "null", rec |-> NoArgs]

UserPointers ==
    { NullPointer, [kind |-> "unmapped", rec |-> NoArgs] }
        \cup { [kind |-> "mapped", rec |-> r] : r \in UserRecords }

\* what user space may put in its record while start_vmm runs: a microkernel
\* file too large to pass validation, with either page pool size
UserRewrites ==
    { [ ver |-> 1,
        mk_elf_file |-> [addr |-> 1, size |-> HYPERVISOR_MAX_ELF_FILE_SIZE],
        ext_elf_files |-> [i \in ExtIndexes |-> [addr |-> 1, size |-> 1]],
        page_pool_size |-> n ] : n \in {0, 1} }

\* ---------------------------------------------------------------- state

VARIABLES
    g_vmm_status,       \* vmm_status.h: the process-wide status
    g_mk_debug_ring,    \* the cursors of the shared debug ring
    g,                  \* the global spans g_mk_root_page_table, g_mk_elf_file, ...
    heap,               \* the platform's live allocations: <<resource, address>>
    mapped,             \* the mappings present in the root page table
    cpu,                \* per CPU: is it in VMX operation under the microkernel
    pc,                 \* position of the control path
    op,                 \* the call in progress or last returned
    ioctl_args,         \* start_vmm's argument: what the user pointer designates
    args,               \* start_vmm's local copy of the record
    ret,                \* the value the last call returned
    log,                \* the calls made by the call in progress, in order
    pre_heap,           \* heap when the step sequence of the current start began
    call,               \* a function applied on its own: its name and inputs
    result              \* what that function returned and wrote

vars ==
    << g_vmm_status, g_mk_debug_ring, g, heap, mapped, cpu, pc, op,
       ioctl_args, args, ret, log, pre_heap, call, result >>

\* no function is applied on its own while the loader's lifecycle runs
NoCall == [fn |-> "none"]

NoResult == [ret |-> LOADER_SUCCESS]

\* the allocations made when the loader is initialised, before any start
BaseHeap == { << "mk_debug_ring", 1 >> }

Init ==
    /\ g_vmm_status = VMM_STATUS_STOPPED
    /\ g_mk_debug_ring = [spos |-> 0, epos |-> 0]
    /\ g = [r \in ResourceSet |-> NullSpan]
    /\ heap = BaseHeap
    /\ mapped = {}
    /\ cpu = [c \in Cpus |-> FALSE]
    /\ pc = "idle"
    /\ op = "none"
    /\ ioctl_args = NullPointer
    /\ args = NoArgs
    /\ ret = LOADER_SUCCESS
    /\ log = << >>
    /\ pre_heap = BaseHeap
    /\ call = NoCall
    /\ result = NoResult

\* ------------------------------------------------------------- platform

Event(name, arg, r) == << name, arg, r >>

Ret(ok) == IF ok THEN LOADER_SUCCESS ELSE LOADER_FAILURE

\* the address the platform allocator returns for a resource: the lowest free one
FreshAddr(h, r) ==
    CHOOSE n \in 1 .. (Cardinality(h) + 1) :
        /\ << r, n >> \notin h
        /\ \A m \in 1 .. (n - 1) : << r, m >> \in h

\* platform_alloc: a new live allocation
platform_alloc(h, r) == h \cup { << r, FreshAddr(h, r) >> }

\* platform_free: idempotent on null
platform_free(h, r, addr) == IF addr = NULL THEN h ELSE h \ { << r, addr >> }

\* the order in which platform_on_each_cpu visits the CPUs
CpuOrder(dir) ==
    [i \in 1 .. NumCpus |->
        IF dir = PLATFORM_FORWARD THEN i - 1 ELSE NumCpus - i]

\* start_vmm_per_cpu on one CPU: on success the CPU runs the microkernel
start_vmm_per_cpu(in_vmx, ok) == ok

\* stop_vmm_per_cpu on one CPU: on success the CPU has left VMX operation
stop_vmm_per_cpu(in_vmx, ok) == IF ok THEN FALSE ELSE in_vmx

\* platform_on_each_cpu(func, dir): func runs on every CPU in order; the
\* result is failure if func failed on any CPU
platform_on_each_cpu(func, dir, c, oks) ==
    [ cpu |-> [i \in Cpus |->
                  IF func = "start_vmm_per_cpu"
                  THEN start_vmm_per_cpu(c[i], oks[i])
                  ELSE stop_vmm_per_cpu(c[i], oks[i])],
      ret |-> Ret(\A i \in Cpus : oks[i]),
      events |-> [i \in 1 .. NumCpus |->
                    Event(func, CpuOrder(dir)[i], Ret(oks[CpuOrder(dir)[i]]))] ]

\* ---------------------------------------------------- release functions

\* free_mk_root_page_table, free_mk_elf_file, free_ext_elf_files,
\* free_mk_elf_segments, free_mk_page_pool, free_mk_huge_pool: hand the
\* span's memory to platform_free, then zero the span
free_span(h, spans, r) ==
    [ heap |-> platform_free(h, r, spans[r].addr),
      g |-> [spans EXCEPT ![r] = NullSpan] ]

\* the state left by releasing every resource, huge pool first and root
\* page table last
RECURSIVE free_all(_, _, _)
free_all(h, spans, i) ==
    IF i = 0 THEN [heap |-> h, g |-> spans]
    ELSE free_all(free_span(h, spans, Resources[i]).heap,
                  free_span(h, spans, Resources[i]).g, i - 1)

\* stop_and_free_the_vmm: stop every CPU in reverse order; when that worked
\* release everything and become stopped, otherwise become corrupt
stop_and_free_the_vmm(oks) ==
    LET fan == platform_on_each_cpu("stop_vmm_per_cpu", PLATFORM_REVERSE, cpu, oks)
        freed == free_all(heap, g, Len(Resources))
    IN  IF fan.ret # LOADER_SUCCESS
        THEN [ status |-> VMM_STATUS_CORRUPT, cpu |-> fan.cpu, heap |-> heap,
               g |-> g, mapped |-> mapped, ret |-> LOADER_FAILURE ]
        ELSE [ status |-> VMM_STATUS_STOPPED, cpu |-> fan.cpu, heap |-> freed.heap,
               g |-> freed.g, mapped |-> {}, ret |-> LOADER_SUCCESS ]

\* ------------------------------------------------- verify_start_vmm_args

\* the body of the loop over the extension files, from index idx on
RECURSIVE verify_ext_elf_files(_, _)
verify_ext_elf_files(a, idx) ==
    IF ~(idx < HYPERVISOR_MAX_EXTENSIONS) THEN LOADER_SUCCESS
    ELSE IF a.ext_elf_files[idx].addr = NULL /\ a.ext_elf_files[idx].size # 0
    THEN LOADER_FAILURE
    ELSE IF a.ext_elf_files[idx].size = 0 /\ a.ext_elf_files[idx].addr # NULL
    THEN LOADER_FAILURE
    ELSE IF HYPERVISOR_MAX_ELF_FILE_SIZE <= a.ext_elf_files[idx].size
    THEN LOADER_FAILURE
    ELSE verify_ext_elf_files(a, idx + 1)

\* a plausible slip: the upper bound of mk_elf_file.size compared with <
verify_start_vmm_args_size_slip(a) ==
    IF 1 # a.ver THEN LOADER_FAILURE
    ELSE IF NULL = a.mk_elf_file.addr THEN LOADER_FAILURE
    ELSE IF 0 = a.mk_elf_file.size THEN LOADER_FAILURE
    ELSE IF HYPERVISOR_MAX_ELF_FILE_SIZE < a.mk_elf_file.size THEN LOADER_FAILURE
    ELSE IF NULL = a.ext_elf_files[0].addr THEN LOADER_FAILURE
    ELSE verify_ext_elf_files(a, 0)

verify_start_vmm_args(a) ==
    IF 1 # a.ver THEN LOADER_FAILURE
    ELSE IF NULL = a.mk_elf_file.addr THEN LOADER_FAILURE
    ELSE IF 0 = a.mk_elf_file.size THEN LOADER_FAILURE
    ELSE IF HYPERVISOR_MAX_ELF_FILE_SIZE <= a.mk_elf_file.size THEN LOADER_FAILURE
    ELSE IF NULL = a.ext_elf_files[0].addr THEN LOADER_FAILURE
    ELSE verify_ext_elf_files(a, 0)

\* ------------------------------------------------------------- start_vmm

\* the call returns r; a failed call leaves nothing of its arguments behind
Return(r) ==
    /\ pc' = "idle"
    /\ ret' = r
    /\ ioctl_args' = NullPointer
    /\ args' = IF r = LOADER_SUCCESS THEN args ELSE NoArgs

\* the call goes on at the statement next
Continue(next) ==
    /\ pc' = next
    /\ UNCHANGED << ret, ioctl_args, args >>

\* a plausible slip: a running VMM is stopped before the request is checked
StartVmm_StopsFirst ==
    /\ pc = "idle"
    /\ \E p \in UserPointers :
        IF p.kind = "null"
        THEN Return(LOADER_FAILURE)
        ELSE /\ pc' = "platform_copy_from_user"
             /\ ioctl_args' = p
             /\ args' = NoArgs
             /\ ret' = LOADER_SUCCESS
    /\ op' = "start_vmm"
    /\ log' = << >>
    /\ IF VMM_STATUS_RUNNING = g_vmm_status
       THEN LET s == stop_and_free_the_vmm([c \in Cpus |-> TRUE])
            IN  /\ g_vmm_status' = s.status
                /\ cpu' = s.cpu
                /\ heap' = s.heap
                /\ g' = s.g
                /\ mapped' = s.mapped
       ELSE UNCHANGED << g_vmm_status, cpu, heap, g, mapped >>
    /\ UNCHANGED << g_mk_debug_ring, pre_heap, call, result >>

\* start_vmm is called: the null check of ioctl_args
StartVmm ==
    /\ pc = "idle"
    /\ \E p \in UserPointers :
        IF p.kind = "null"
        THEN Return(LOADER_FAILURE)
        ELSE /\ pc' = "platform_copy_from_user"
             /\ ioctl_args' = p
             /\ args' = NoArgs
             /\ ret' = LOADER_SUCCESS
    /\ op' = "start_vmm"
    /\ log' = << >>
    /\ UNCHANGED << g_vmm_status, g_mk_debug_ring, g, heap, mapped, cpu, pre_heap,
                    call, result >>

\* ioctl_args points into user memory: the caller's process may overwrite
\* the record at any moment of the call
UserWrite ==
    /\ pc # "idle"
    /\ ioctl_args.kind = "mapped"
    /\ \E r \in UserRewrites : ioctl_args' = [ioctl_args EXCEPT !.rec = r]
    /\ UNCHANGED << g_vmm_status, g_mk_debug_ring, g, heap, mapped, cpu, pc, op,
                    args, ret, log, pre_heap, call, result >>

\* a plausible slip: the result of the copy is not tested
CopyFromUser_IgnoresFault ==
    /\ pc = "platform_copy_from_user"
    /\ pc' = "verify_start_vmm_args"
    /\ log' = Append(log, Event("platform_copy_from_user", 0,
                                Ret(ioctl_args.kind # "unmapped")))
    /\ args' = ioctl_args.rec
    /\ UNCHANGED << ret, ioctl_args >>
    /\ UNCHANGED << g_vmm_status, g_mk_debug_ring, g, heap, mapped, cpu, op,
                    pre_heap, call, result >>

\* platform_copy_from_user(&args, ioctl_args, sizeof(args))
CopyFromUser ==
    /\ pc = "platform_copy_from_user"
    /\ IF ioctl_args.kind = "unmapped"
       THEN /\ Return(LOADER_FAILURE)
            /\ log' = Append(log, Event("platform_copy_from_user", 0, LOADER_FAILURE))
       ELSE /\ pc' = "verify_start_vmm_args"
            /\ log' = Append(log, Event("platform_copy_from_user", 0, LOADER_SUCCESS))
            /\ args' = ioctl_args.rec
            /\ UNCHANGED << ret, ioctl_args >>
    /\ UNCHANGED << g_vmm_status, g_mk_debug_ring, g, heap, mapped, cpu, op,
                    pre_heap, call, result >>

\* a plausible slip: the debug ring is reset before the record is validated
VerifyStartVmmArgs_ResetsRing ==
    /\ pc = "verify_start_vmm_args"
    /\ log' = Append(log, Event("verify_start_vmm_args", 0, verify_start_vmm_args(args)))
    /\ IF verify_start_vmm_args(args) # LOADER_SUCCESS
       THEN Return(LOADER_FAILURE)
       ELSE Continue("check_running")
    /\ g_mk_debug_ring' = [spos |-> 0, epos |-> 0]
    /\ UNCHANGED << g_vmm_status, g, heap, mapped, cpu, op, pre_heap, call, result >>

\* if (verify_start_vmm_args(&args)) return LOADER_FAILURE;
VerifyStartVmmArgs ==
    /\ pc = "verify_start_vmm_args"
    /\ log' = Append(log, Event("verify_start_vmm_args", 0, verify_start_vmm_args(args)))
    /\ IF verify_start_vmm_args(args) # LOADER_SUCCESS
       THEN Return(LOADER_FAILURE)
       ELSE Continue("check_running")
    /\ UNCHANGED << g_vmm_status, g_mk_debug_ring, g, heap, mapped, cpu, op,
                    pre_heap, call, result >>

\* ---------------------------------------------- alloc_and_start_the_vmm

Frame == UNCHANGED << op, call, result >>

\* the labels of the cleanup chain that mark the same statement,
\* free_mk_huge_pool(&g_mk_huge_pool)
MapFailedLabels ==
    { "map_mk_huge_pool_failed", "map_mk_page_pool_failed",
      "map_mk_elf_segments_failed", "map_ext_elf_files_failed",
      "map_mk_elf_file_failed", "map_mk_code_aliases_failed",
      "map_mk_debug_ring_failed" }

\* the statement a goto to a label of the cleanup chain continues at
Target(label) ==
    CASE label = "start_vmm_per_cpu_failed" -> "stop_vmm_per_cpu"
      [] label \in MapFailedLabels -> "free_mk_huge_pool"
      [] label = "alloc_mk_huge_pool_failed" -> "free_mk_page_pool"
      [] label = "alloc_mk_page_pool_failed" -> "free_mk_elf_segments"
      [] label = "alloc_and_copy_mk_elf_segments_failed" -> "free_ext_elf_files"
      [] label = "alloc_and_copy_ext_elf_files_from_user_failed" -> "free_mk_elf_file"
      [] label = "alloc_and_copy_mk_elf_file_from_user_failed" -> "free_mk_root_page_table"
      [] label = "alloc_and_copy_mk_root_page_table_failed" -> "return_failure"

\* a plausible slip: the running VMM is not stopped before the restart
CheckRunning_NoStop ==
    /\ pc = "check_running"
    /\ Continue("check_corrupt")
    /\ pre_heap' = heap
    /\ UNCHANGED << g_vmm_status, cpu, heap, g, mapped, log, g_mk_debug_ring >>
    /\ Frame

\* if (VMM_STATUS_RUNNING == g_vmm_status) stop_and_free_the_vmm();
CheckRunning ==
    /\ pc = "check_running"
    /\ IF VMM_STATUS_RUNNING = g_vmm_status
       THEN \E oks \in [Cpus -> BOOLEAN] :
                LET s == stop_and_free_the_vmm(oks)
                IN  /\ g_vmm_status' = s.status
                    /\ cpu' = s.cpu
                    /\ heap' = s.heap
                    /\ g' = s.g
                    /\ mapped' = s.mapped
                    /\ log' = Append(log, Event("stop_and_free_the_vmm", 0, s.ret))
       ELSE UNCHANGED << g_vmm_status, cpu, heap, g, mapped, log >>
    /\ Continue("check_corrupt")
    /\ pre_heap' = heap'
    /\ UNCHANGED g_mk_debug_ring
    /\ Frame

\* a plausible slip: the corrupt status is not checked
CheckCorrupt_Missing ==
    /\ pc = "check_corrupt"
    /\ Continue("reset_debug_ring")
    /\ UNCHANGED << g_vmm_status, g_mk_debug_ring, g, heap, mapped, cpu, log,
                    pre_heap >>
    /\ Frame

\* if (VMM_STATUS_CORRUPT == g_vmm_status) return LOADER_FAILURE;
CheckCorrupt ==
    /\ pc = "check_corrupt"
    /\ IF VMM_STATUS_CORRUPT = g_vmm_status
       THEN Return(LOADER_FAILURE)
       ELSE Continue("reset_debug_ring")
    /\ UNCHANGED << g_vmm_status, g_mk_debug_ring, g, heap, mapped, cpu, log,
                    pre_heap >>
    /\ Frame

\* a plausible slip: only the producer cursor is reset
ResetDebugRing_OnlyEpos ==
    /\ pc = "reset_debug_ring"
    /\ g_mk_debug_ring' = [g_mk_debug_ring EXCEPT !.epos = 0]
    /\ log' = Append(log, Event("reset_debug_ring", 0, LOADER_SUCCESS))
    /\ Continue("alloc_mk_root_page_table")
    /\ UNCHANGED << g_vmm_status, g, heap, mapped, cpu, pre_heap >>
    /\ Frame

\* g_mk_debug_ring->epos = 0; g_mk_debug_ring->spos = 0;
ResetDebugRing ==
    /\ pc = "reset_debug_ring"
    /\ g_mk_debug_ring' = [spos |-> 0, epos |-> 0]
    /\ log' = Append(log, Event("reset_debug_ring", 0, LOADER_SUCCESS))
    /\ Continue("alloc_mk_root_page_table")
    /\ UNCHANGED << g_vmm_status, g, heap, mapped, cpu, pre_heap >>
    /\ Frame

\* one acquisition step `if (alloc(..., &g_r)) goto label;`: the allocation
\* either succeeds, leaving g_r set, or fails, leaving g_r zeroed
AllocStep(step, r, size, next, label) ==
    /\ pc = step
    /\ \E ok \in BOOLEAN :
        /\ log' = Append(log, Event(step, 0, Ret(ok)))
        /\ IF ok
           THEN /\ heap' = platform_alloc(heap, r)
                /\ g' = [g EXCEPT ![r] = [addr |-> FreshAddr(heap, r), size |-> size]]
                /\ Continue(next)
           ELSE /\ heap' = heap
                /\ g' = [g EXCEPT ![r] = NullSpan]
                /\ Continue(Target(label))
    /\ UNCHANGED << g_vmm_status, g_mk_debug_ring, mapped, cpu, pre_heap >>
    /\ Frame

\* one mapping step `if (map(..., g_mk_root_page_table)) goto label;`
MapStep(step, m, next, label) ==
    /\ pc = step
    /\ \E ok \in BOOLEAN :
        /\ log' = Append(log, Event(step, 0, Ret(ok)))
        /\ IF ok
           THEN mapped' = mapped \cup {m} /\ Continue(next)
           ELSE mapped' = mapped /\ Continue(Target(label))
    /\ UNCHANGED << g_vmm_status, g_mk_debug_ring, g, heap, cpu, pre_heap >>
    /\ Frame

\* the sizes the acquisition steps record
ExtElfFilesSize(a, i) ==
    IF a.ext_elf_files[i].addr = NULL THEN 0 ELSE a.ext_elf_files[i].size

RECURSIVE ExtElfFilesTotal(_, _)
ExtElfFilesTotal(a, i) ==
    IF i = HYPERVISOR_MAX_EXTENSIONS THEN 0
    ELSE ExtElfFilesSize(a, i) + ExtElfFilesTotal(a, i + 1)

PoolSize(size, default) ==
    IF 0 = size THEN default ELSE HYPERVISOR_PAGE_SIZE * size

AllocMkRootPageTable ==
    AllocStep("alloc_mk_root_page_table", "mk_root_page_table",
              HYPERVISOR_PAGE_SIZE,
              "alloc_and_copy_mk_elf_file_from_user",
              "alloc_and_copy_mk_root_page_table_failed")

AllocAndCopyMkElfFileFromUser ==
    AllocStep("alloc_and_copy_mk_elf_file_from_user", "mk_elf_file",
              args.mk_elf_file.size,
              "alloc_and_copy_ext_elf_files_from_user",
              "alloc_and_copy_mk_elf_file_from_user_failed")

AllocAndCopyExtElfFilesFromUser ==
    AllocStep("alloc_and_copy_ext_elf_files_from_user", "ext_elf_files",
              ExtElfFilesTotal(args, 0),
              "alloc_and_copy_mk_elf_segments",
              "alloc_and_copy_ext_elf_files_from_user_failed")

AllocAndCopyMkElfSegments ==
    AllocStep("alloc_and_copy_mk_elf_segments", "mk_elf_segments",
              g["mk_elf_file"].size,
              "alloc_mk_page_pool",
              "alloc_and_copy_mk_elf_segments_failed")

\* a plausible slip: the page count is fetched from user memory a second time
AllocMkPagePool_RereadsUser ==
    AllocStep("alloc_mk_page_pool", "mk_page_pool",
              PoolSize(ioctl_args.rec.page_pool_size, HYPERVISOR_PAGE_POOL_SIZE),
              "alloc_mk_huge_pool",
              "alloc_mk_page_pool_failed")

\* a plausible slip: the page pool is stored in the huge pool's span
AllocMkPagePool_IntoHugePool ==
    AllocStep("alloc_mk_page_pool", "mk_huge_pool",
              PoolSize(args.page_pool_size, HYPERVISOR_PAGE_POOL_SIZE),
              "alloc_mk_huge_pool",
              "alloc_mk_page_pool_failed")

AllocMkPagePool ==
    AllocStep("alloc_mk_page_pool", "mk_page_pool",
              PoolSize(args.page_pool_size, HYPERVISOR_PAGE_POOL_SIZE),
              "alloc_mk_huge_pool",
              "alloc_mk_page_pool_failed")

\* a plausible slip: the failure jumps one label too far down the chain
AllocMkHugePool_WrongLabel ==
    AllocStep("alloc_mk_huge_pool", "mk_huge_pool",
              PoolSize(0, HYPERVISOR_HUGE_POOL_SIZE),
              "map_mk_debug_ring",
              "alloc_mk_page_pool_failed")

AllocMkHugePool ==
    AllocStep("alloc_mk_huge_pool", "mk_huge_pool",
              PoolSize(0, HYPERVISOR_HUGE_POOL_SIZE),
              "map_mk_debug_ring",
              "alloc_mk_huge_pool_failed")

MapMkDebugRing ==
    MapStep("map_mk_debug_ring", "mk_debug_ring",
            "map_mk_code_aliases", "map_mk_debug_ring_failed")

MapMkCodeAliases ==
    MapStep("map_mk_code_aliases", "mk_code_aliases",
            "map_mk_elf_file", "map_mk_code_aliases_failed")

MapMkElfFile ==
    MapStep("map_mk_elf_file", "mk_elf_file",
            "map_ext_elf_files", "map_mk_elf_file_failed")

MapExtElfFiles ==
    MapStep("map_ext_elf_files", "ext_elf_files",
            "map_mk_elf_segments", "map_ext_elf_files_failed")

MapMkElfSegments ==
    MapStep("map_mk_elf_segments", "mk_elf_segments",
            "map_mk_page_pool", "map_mk_elf_segments_failed")

MapMkPagePool ==
    MapStep("map_mk_page_pool", "mk_page_pool",
            "map_mk_huge_pool", "map_mk_page_pool_failed")

\* a plausible slip: the failure of the last mapping is logged but not acted on
MapMkHugePool_FallsThrough ==
    /\ pc = "map_mk_huge_pool"
    /\ \E ok \in BOOLEAN :
        /\ log' = Append(log, Event("map_mk_huge_pool", 0, Ret(ok)))
        /\ mapped' = IF ok THEN mapped \cup {"mk_huge_pool"} ELSE mapped
    /\ Continue("platform_on_each_cpu")
    /\ UNCHANGED << g_vmm_status, g_mk_debug_ring, g, heap, cpu, pre_heap >>
    /\ Frame

MapMkHugePool ==
    MapStep("map_mk_huge_pool", "mk_huge_pool",
            "platform_on_each_cpu", "map_mk_huge_pool_failed")

\* a plausible slip: a failed fan-out jumps past the per-CPU stop
StartVmmPerCpu_NoRollback ==
    /\ pc = "platform_on_each_cpu"
    /\ \E oks \in [Cpus -> BOOLEAN] :
        LET fan == platform_on_each_cpu("start_vmm_per_cpu", PLATFORM_FORWARD, cpu, oks)
        IN  /\ cpu' = fan.cpu
            /\ log' = log \o fan.events
                          \o << Event("platform_on_each_cpu", 0, fan.ret) >>
            /\ Continue(IF fan.ret # LOADER_SUCCESS
                        THEN Target("map_mk_huge_pool_failed")
                        ELSE "set_running")
    /\ UNCHANGED << g_vmm_status, g_mk_debug_ring, g, heap, mapped, pre_heap >>
    /\ Frame

\* a plausible slip: the result of the fan-out is not tested
StartVmmPerCpu_IgnoresResult ==
    /\ pc = "platform_on_each_cpu"
    /\ \E oks \in [Cpus -> BOOLEAN] :
        LET fan == platform_on_each_cpu("start_vmm_per_cpu", PLATFORM_FORWARD, cpu, oks)
        IN  /\ cpu' = fan.cpu
            /\ log' = log \o fan.events
                          \o << Event("platform_on_each_cpu", 0, fan.ret) >>
    /\ Continue("set_running")
    /\ UNCHANGED << g_vmm_status, g_mk_debug_ring, g, heap, mapped, pre_heap >>
    /\ Frame

\* if (platform_on_each_cpu(start_vmm_per_cpu, PLATFORM_FORWARD))
\*     goto start_vmm_per_cpu_failed;
StartVmmPerCpu ==
    /\ pc = "platform_on_each_cpu"
    /\ \E oks \in [Cpus -> BOOLEAN] :
        LET fan == platform_on_each_cpu("start_vmm_per_cpu", PLATFORM_FORWARD, cpu, oks)
        IN  /\ cpu' = fan.cpu
            /\ log' = log \o fan.events
                          \o << Event("platform_on_each_cpu", 0, fan.ret) >>
            /\ Continue(IF fan.ret # LOADER_SUCCESS
                        THEN Target("start_vmm_per_cpu_failed")
                        ELSE "set_running")
    /\ UNCHANGED << g_vmm_status, g_mk_debug_ring, g, heap, mapped, pre_heap >>
    /\ Frame

\* g_vmm_status = VMM_STATUS_RUNNING; return LOADER_SUCCESS;
SetRunning ==
    /\ pc = "set_running"
    /\ g_vmm_status' = VMM_STATUS_RUNNING
    /\ Return(LOADER_SUCCESS)
    /\ UNCHANGED << g_mk_debug_ring, g, heap, mapped, cpu, log, pre_heap >>
    /\ Frame

\* start_vmm_per_cpu_failed:
\*     if (platform_on_each_cpu(stop_vmm_per_cpu, PLATFORM_REVERSE)) BFERROR(...);
StartVmmPerCpuFailed ==
    /\ pc = "stop_vmm_per_cpu"
    /\ \E oks \in [Cpus -> BOOLEAN] :
        LET fan == platform_on_each_cpu("stop_vmm_per_cpu", PLATFORM_REVERSE, cpu, oks)
        IN  /\ cpu' = fan.cpu
            /\ log' = log \o fan.events
                          \o << Event("platform_on_each_cpu", 1, fan.ret) >>
    /\ Continue("free_mk_huge_pool")
    /\ UNCHANGED << g_vmm_status, g_mk_debug_ring, g, heap, mapped, pre_heap >>
    /\ Frame

\* one statement of the cleanup chain, free_r(&g_r), falling through to the next
FreeStep(step, r, next) ==
    /\ pc = step
    /\ heap' = free_span(heap, g, r).heap
    /\ g' = free_span(heap, g, r).g
    /\ mapped' = IF r = "mk_root_page_table" THEN {} ELSE mapped
    /\ log' = Append(log, Event(FreeFn(r), 0, LOADER_SUCCESS))
    /\ Continue(next)
    /\ UNCHANGED << g_vmm_status, g_mk_debug_ring, cpu, pre_heap >>
    /\ Frame

\* a plausible slip: the first two statements of the chain release the same pool
FreeMkHugePool_ReleasesPagePool ==
    FreeStep("free_mk_huge_pool", "mk_page_pool", "free_mk_page_pool")

FreeMkHugePool ==
    FreeStep("free_mk_huge_pool", "mk_huge_pool", "free_mk_page_pool")

FreeMkPagePool ==
    FreeStep("free_mk_page_pool", "mk_page_pool", "free_mk_elf_segments")

FreeMkElfSegments ==
    FreeStep("free_mk_elf_segments", "mk_elf_segments", "free_ext_elf_files")

FreeExtElfFiles ==
    FreeStep("free_ext_elf_files", "ext_elf_files", "free_mk_elf_file")

FreeMkElfFile ==
    FreeStep("free_mk_elf_file", "mk_elf_file", "free_mk_root_page_table")

FreeMkRootPageTable ==
    FreeStep("free_mk_root_page_table", "mk_root_page_table", "return_failure")

\* a plausible slip: start_vmm does not test what the orchestrator returned
ReturnFailure_ReturnsSuccess ==
    /\ pc = "return_failure"
    /\ Return(LOADER_SUCCESS)
    /\ UNCHANGED << g_vmm_status, g_mk_debug_ring, g, heap, mapped, cpu, log,
                    pre_heap >>
    /\ Frame

\* a plausible slip: a failed restart reports the old VMM as running again
ReturnFailure_RestoresStatus ==
    /\ pc = "return_failure"
    /\ Return(LOADER_FAILURE)
    /\ g_vmm_status' =
           IF \E i \in DOMAIN log : log[i][1] = "stop_and_free_the_vmm"
           THEN VMM_STATUS_RUNNING
           ELSE g_vmm_status
    /\ UNCHANGED << g_mk_debug_ring, g, heap, mapped, cpu, log, pre_heap >>
    /\ Frame

\* alloc_and_copy_mk_root_page_table_failed: return LOADER_FAILURE;
\* and start_vmm passes the failure on
ReturnFailure ==
    /\ pc = "return_failure"
    /\ Return(LOADER_FAILURE)
    /\ UNCHANGED << g_vmm_status, g_mk_debug_ring, g, heap, mapped, cpu, log,
                    pre_heap >>
    /\ Frame

\* -------------------------------------------------------------- stop_vmm

\* stop_vmm: tears a running VMM down; nothing to do when it is stopped, and
\* a corrupt VMM stays corrupt
StopVmm ==
    /\ pc = "idle"
    /\ op' = "stop_vmm"
    /\ ioctl_args' = NullPointer
    /\ args' = NoArgs
    /\ pc' = "idle"
    /\ pre_heap' = pre_heap
    /\ UNCHANGED << g_mk_debug_ring, call, result >>
    /\ IF g_vmm_status = VMM_STATUS_RUNNING
       THEN \E oks \in [Cpus -> BOOLEAN] :
                LET s == stop_and_free_the_vmm(oks)
                IN  /\ g_vmm_status' = s.status
                    /\ cpu' = s.cpu
                    /\ heap' = s.heap
                    /\ g' = s.g
                    /\ mapped' = s.mapped
                    /\ ret' = s.ret
                    /\ log' = << Event("stop_and_free_the_vmm", 0, s.ret) >>
       ELSE /\ UNCHANGED << g_vmm_status, cpu, heap, g, mapped >>
            /\ ret' = IF g_vmm_status = VMM_STATUS_CORRUPT
                      THEN LOADER_FAILURE ELSE LOADER_SUCCESS
            /\ log' = << >>

\* ------------------------------------------------------------ debug ring

\* the microkernel, once running, appends to the debug ring
DebugRingWrite ==
    /\ pc = "idle"
    /\ g_vmm_status = VMM_STATUS_RUNNING
    /\ g_mk_debug_ring.epos < MaxEpos
    /\ g_mk_debug_ring' = [g_mk_debug_ring EXCEPT !.epos = @ + 1]
    /\ UNCHANGED << g_vmm_status, g, heap, mapped, cpu, pc, op, ioctl_args,
                    args, ret, log, pre_heap, call, result >>

\* the loader's reader consumes what the ring holds
DebugRingRead ==
    /\ pc = "idle"
    /\ g_mk_debug_ring.spos < g_mk_debug_ring.epos
    /\ g_mk_debug_ring' = [g_mk_debug_ring EXCEPT !.spos = g_mk_debug_ring.epos]
    /\ UNCHANGED << g_vmm_status, g, heap, mapped, cpu, pc, op, ioctl_args,
                    args, ret, log, pre_heap, call, result >>

\* --------------------------------------------------------- specification

Next ==
    \/ StartVmm
    \/ UserWrite
    \/ CopyFromUser
    \/ VerifyStartVmmArgs
    \/ CheckRunning
    \/ CheckCorrupt
    \/ ResetDebugRing
    \/ AllocMkRootPageTable
    \/ AllocAndCopyMkElfFileFromUser
    \/ AllocAndCopyExtElfFilesFromUser
    \/ AllocAndCopyMkElfSegments
    \/ AllocMkPagePool
    \/ AllocMkHugePool
    \/ MapMkDebugRing
    \/ MapMkCodeAliases
    \/ MapMkElfFile
    \/ MapExtElfFiles
    \/ MapMkElfSegments
    \/ MapMkPagePool
    \/ MapMkHugePool
    \/ StartVmmPerCpu
    \/ SetRunning
    \/ StartVmmPerCpuFailed
    \/ FreeMkHugePool
    \/ FreeMkPagePool
    \/ FreeMkElfSegments
    \/ FreeExtElfFiles
    \/ FreeMkElfFile
    \/ FreeMkRootPageTable
    \/ ReturnFailure
    \/ StopVmm
    \/ DebugRingWrite
    \/ DebugRingRead

Spec == Init /\ [][Next]_vars

\* verify_start_vmm_args on its own, applied to every record within the bounds
InitVerify ==
    /\ g_vmm_status = VMM_STATUS_STOPPED
    /\ g_mk_debug_ring = [spos |-> 0, epos |-> 0]
    /\ g = [r \in ResourceSet |-> NullSpan]
    /\ heap = BaseHeap
    /\ mapped = {}
    /\ cpu = [c \in Cpus |-> FALSE]
    /\ pc = "verify_only"
    /\ op = "none"
    /\ ioctl_args = NullPointer
    /\ args \in StartArgsDomain
    /\ ret = LOADER_SUCCESS
    /\ log = << >>
    /\ pre_heap = BaseHeap
    /\ call = NoCall
    /\ result = NoResult

VerifyOnly ==
    /\ pc = "verify_only"
    /\ ret' = verify_start_vmm_args(args)
    /\ pc' = "verified"
    /\ UNCHANGED << g_vmm_status, g_mk_debug_ring, g, heap, mapped, cpu, op,
                    ioctl_args, args, log, pre_heap, call, result >>

NextVerify == VerifyOnly

SpecVerify == InitVerify /\ [][NextVerify]_vars

TypeOK ==
    /\ g_vmm_status \in {VMM_STATUS_STOPPED, VMM_STATUS_RUNNING, VMM_STATUS_CORRUPT}
    /\ g_mk_debug_ring \in [spos : 0 .. MaxEpos, epos : 0 .. MaxEpos]
    /\ mapped \subseteq MappingSet
    /\ cpu \in [Cpus -> BOOLEAN]
    /\ ret \in {LOADER_SUCCESS, LOADER_FAILURE}
    /\ op \in {"none", "start_vmm", "stop_vmm"}

\* ------------------------------------- alloc_mk_huge_pool, alloc_mk_stack

\* the widths of uint32_t and uint64_t, scaled by the same amount so that
\* 2 ^ Uint64Bits is an integer of the model checker; as in the source a
\* uint32_t times the page size fits a uint64_t but not a uint32_t
Uint32Bits == 15
Uint64Bits == 30

Uint32(n) == n % (2 ^ Uint32Bits)

Uint64(n) == n % (2 ^ Uint64Bits)

UINT32_MAX == (2 ^ Uint32Bits) - 1

HYPERVISOR_MK_STACK_SIZE == 8 * HYPERVISOR_PAGE_SIZE

\* the least page count whose size in bytes does not fit a uint32_t
WrapPageCount == (2 ^ Uint32Bits) \div HYPERVISOR_PAGE_SIZE

\* the page counts handed to the allocators
PageCounts ==
    (0 .. MaxPageCount)
        \cup { WrapPageCount - 1, WrapPageCount, UINT32_MAX - 1, UINT32_MAX }

\* what the span handed to an allocator holds before the call
StaleSpans == { NullSpan, [addr |-> 7, size |-> 7] }

\* what the platform allocator returns: a null pointer or an address
PlatformAddrs == { NULL, 1 }

\* a plausible slip: the cast is missing and the product is a uint32_t
alloc_mk_huge_pool_narrow(size, huge_pool, addr) ==
    LET sized == [huge_pool EXCEPT !.size =
                     IF 0 = size THEN HYPERVISOR_HUGE_POOL_SIZE
                     ELSE Uint32(HYPERVISOR_PAGE_SIZE * size)]
        alloced == [sized EXCEPT !.addr = addr]
    IN  IF NULL = alloced.addr
        THEN [ret |-> LOADER_FAILURE, span |-> NullSpan,
              requested |-> sized.size, platform |-> addr]
        ELSE [ret |-> LOADER_SUCCESS, span |-> alloced,
              requested |-> sized.size, platform |-> addr]

\* alloc_mk_huge_pool(size, huge_pool), addr being what
\* platform_alloc_contiguous returns: the size is stored, then the address;
\* a null address has the span cleared by platform_memset
alloc_mk_huge_pool(size, huge_pool, addr) ==
    LET sized == [huge_pool EXCEPT !.size =
                     IF 0 = size THEN HYPERVISOR_HUGE_POOL_SIZE
                     ELSE Uint64(HYPERVISOR_PAGE_SIZE * Uint64(size))]
        alloced == [sized EXCEPT !.addr = addr]
    IN  IF NULL = alloced.addr
        THEN [ret |-> LOADER_FAILURE, span |-> NullSpan,
              requested |-> sized.size, platform |-> addr]
        ELSE [ret |-> LOADER_SUCCESS, span |-> alloced,
              requested |-> sized.size, platform |-> addr]

\* a plausible slip: the failure path returns without clearing the span
alloc_mk_stack_stale_size(size, stack, addr) ==
    LET sized == [stack EXCEPT !.size =
                     IF 0 = size THEN HYPERVISOR_MK_STACK_SIZE
                     ELSE Uint64(HYPERVISOR_PAGE_SIZE * Uint64(size))]
        alloced == [sized EXCEPT !.addr = addr]
    IN  IF NULL = alloced.addr
        THEN [ret |-> LOADER_FAILURE, span |-> alloced,
              requested |-> sized.size, platform |-> addr]
        ELSE [ret |-> LOADER_SUCCESS, span |-> alloced,
              requested |-> sized.size, platform |-> addr]

\* alloc_mk_stack(size, stack), addr being what platform_alloc returns
alloc_mk_stack(size, stack, addr) ==
    LET sized == [stack EXCEPT !.size =
                     IF 0 = size THEN HYPERVISOR_MK_STACK_SIZE
                     ELSE Uint64(HYPERVISOR_PAGE_SIZE * Uint64(size))]
        alloced == [sized EXCEPT !.addr = addr]
    IN  IF NULL = alloced.addr
        THEN [ret |-> LOADER_FAILURE, span |-> NullSpan,
              requested |-> sized.size, platform |-> addr]
        ELSE [ret |-> LOADER_SUCCESS, span |-> alloced,
              requested |-> sized.size, platform |-> addr]

\* the loader at rest while a function is applied on its own
AtRest(p) ==
    /\ g_vmm_status = VMM_STATUS_STOPPED
    /\ g_mk_debug_ring = [spos |-> 0, epos |-> 0]
    /\ g = [r \in ResourceSet |-> NullSpan]
    /\ heap = BaseHeap
    /\ mapped = {}
    /\ cpu = [c \in Cpus |-> FALSE]
    /\ pc = p
    /\ op = "none"
    /\ ioctl_args = NullPointer
    /\ args = NoArgs
    /\ ret = LOADER_SUCCESS
    /\ log = << >>
    /\ pre_heap = BaseHeap

StaysAtRest ==
    UNCHANGED << g_vmm_status, g_mk_debug_ring, g, heap, mapped, cpu, op,
                 ioctl_args, args, ret, log, pre_heap >>

\* the two allocators on their own, applied to every page count of
\* PageCounts, over an empty and a used span
InitAlloc ==
    /\ AtRest("alloc_only")
    /\ call \in [ fn : {"alloc_mk_huge_pool", "alloc_mk_stack"},
                   size : PageCounts,
                   span : StaleSpans ]
    /\ result = NoResult

AllocMkHugePoolOnly ==
    /\ pc = "alloc_only"
    /\ call.fn = "alloc_mk_huge_pool"
    /\ \E addr \in PlatformAddrs :
          result' = alloc_mk_huge_pool(call.size, call.span, addr)
    /\ pc' = "allocated"
    /\ UNCHANGED call
    /\ StaysAtRest

AllocMkStackOnly ==
    /\ pc = "alloc_only"
    /\ call.fn = "alloc_mk_stack"
    /\ \E addr \in PlatformAddrs :
          result' = alloc_mk_stack(call.size, call.span, addr)
    /\ pc' = "allocated"
    /\ UNCHANGED call
    /\ StaysAtRest

NextAlloc ==
    \/ AllocMkHugePoolOnly
    \/ AllocMkStackOnly

SpecAlloc == InitAlloc /\ [][NextAlloc]_vars

\* ------------------- get_gdt_descriptor_base, get_gdt_descriptor_attrib

\* a uint64_t as the set of the positions of its one bits, bit 0 the lowest
Bits(lo, hi) == lo .. hi

And(x, mask) == x \cap mask

Or(x, y) == x \cup y

\* x >> n and x << n on a uint64_t
Shr(x, n) == { b - n : b \in { c \in x : c >= n } }

Shl(x, n) == { b + n : b \in { c \in x : c + n < 64 } }

\* the cast (uint16_t)x
Uint16(x) == x \cap Bits(0, 15)

\* 0x00000000FFFF0000, 0x000000FF00000000, 0xFF00000000000000, 0x00000000FFFFFFFF
BASE_MASK1 == Bits(16, 31)
BASE_MASK2 == Bits(32, 39)

\* a plausible slip: 0xFFFF000000000000
BASE_MASK3_wide == Bits(48, 63)

BASE_MASK3 == Bits(56, 63)
BASE_MASK4 == Bits(0, 31)
BASE_SHIFT1 == 16
BASE_SHIFT2 == 16
BASE_SHIFT3 == 32
BASE_SHIFT4 == 32

\* 0x0000100000000000
SYSTEM_BIT == {44}

\* 0x0000FF0000000000, 0x00F0000000000000
ATTRIB_MASK1 == Bits(40, 47)

\* a plausible slip: 0x00FF000000000000
ATTRIB_MASK2_wide == Bits(48, 55)

ATTRIB_MASK2 == Bits(52, 55)
ATTRIB_SHIFT1 == 40
ATTRIB_SHIFT2 == 40

\* the descriptor table's memory: 8-byte words at the indexes 0 .. ; the
\* words past the limit belong to something else
GdtIndexes == 0 .. (GdtEntries + 1)

\* the fields of an 8-byte descriptor
DescriptorFields ==
    { Bits(0, 15), Bits(16, 31), Bits(32, 39), Bits(40, 43), SYSTEM_BIT,
      Bits(45, 47), Bits(48, 51), Bits(52, 55), Bits(56, 63) }

\* base 0x00000000FFFFAB00 in the 8-byte layout, a code or data segment
ExampleDescriptor == {24, 25, 27, 29, 31} \cup Bits(32, 39) \cup Bits(56, 63) \cup SYSTEM_BIT

\* the words a table holds: nothing, everything, one field, all but one field
Words ==
    { {}, Bits(0, 63), ExampleDescriptor }
        \cup DescriptorFields
        \cup { Bits(0, 63) \ f : f \in DescriptorFields }

\* the tables: one word at one index, another word everywhere else
Tables ==
    { [i \in GdtIndexes |-> IF i = k THEN w ELSE u] :
        k \in 1 .. (GdtEntries - 1), w \in Words, u \in { {}, Bits(0, 63) } }

\* gdtr->limit: whole entries, and limits that end inside an entry
Limits ==
    { (8 * k) - 1 : k \in 1 .. GdtEntries } \cup { 0, 3, (8 * GdtEntries) - 5 }

\* what the pointer gdtr designates: nothing, or a register value
NullGdtr == [null |-> TRUE, limit |-> 0, base |-> [i \in GdtIndexes |-> {}]]

Gdtrs ==
    { NullGdtr } \cup [null : {FALSE}, limit : Limits, base : Tables]

\* the selectors: every selector of index 0, then each index up to one past
\* the table with three settings of the RPL and TI bits, and the largest
Selectors ==
    (0 .. 7) \cup { (8 * i) + r : i \in 1 .. GdtEntries, r \in {0, 3, 7} }
             \cup { 65535 }

\* what the output location holds before the call
OldOutput == Bits(0, 63)

\* the results of the two functions: the return value, the output location
\* after the call, whether it was written, the indexes read from the table
GdtFailure(old, reads) ==
    [ret |-> LOADER_FAILURE, out |-> old, written |-> FALSE, reads |-> reads]

GdtSuccess(value, reads) ==
    [ret |-> LOADER_SUCCESS, out |-> value, written |-> TRUE, reads |-> reads]

\* a plausible slip: the bounds test accepts the index one past the table
get_gdt_descriptor_base_past_end(gdtr, selector, base_null, base_old) ==
    LET idx64_0 == (selector \div 8) + 0
        idx64_1 == (selector \div 8) + 1
        bytes64_0 == Uint64(gdtr.limit + 1)
        bytes64_1 == Uint64(gdtr.limit + 1 - 8)
        low == Or(Or(Shr(And(gdtr.base[idx64_0], BASE_MASK1), BASE_SHIFT1),
                     Shr(And(gdtr.base[idx64_0], BASE_MASK2), BASE_SHIFT2)),
                  Shr(And(gdtr.base[idx64_0], BASE_MASK3), BASE_SHIFT3))
    IN  IF gdtr.null THEN GdtFailure(base_old, {})
        ELSE IF base_null THEN GdtFailure(base_old, {})
        ELSE IF 0 = idx64_0 THEN GdtSuccess({}, {})
        ELSE IF idx64_0 > (bytes64_0 \div 8) THEN GdtFailure(base_old, {})
        ELSE IF And(gdtr.base[idx64_0], SYSTEM_BIT) = {}
        THEN IF idx64_1 >= (bytes64_1 \div 8)
             THEN GdtFailure(base_old, {idx64_0})
             ELSE GdtSuccess(
                      Or(low, Shl(And(gdtr.base[idx64_1], BASE_MASK4), BASE_SHIFT4)),
                      {idx64_0, idx64_1})
        ELSE GdtSuccess(low, {idx64_0})

\* get_gdt_descriptor_base(gdtr, selector, base): base_null says whether the
\* pointer base is null, base_old is what it points to before the call
get_gdt_descriptor_base(gdtr, selector, base_null, base_old) ==
    LET idx64_0 == (selector \div 8) + 0
        idx64_1 == (selector \div 8) + 1
        bytes64_0 == Uint64(gdtr.limit + 1)
        bytes64_1 == Uint64(gdtr.limit + 1 - 8)
        low == Or(Or(Shr(And(gdtr.base[idx64_0], BASE_MASK1), BASE_SHIFT1),
                     Shr(And(gdtr.base[idx64_0], BASE_MASK2), BASE_SHIFT2)),
                  Shr(And(gdtr.base[idx64_0], BASE_MASK3), BASE_SHIFT3))
    IN  IF gdtr.null THEN GdtFailure(base_old, {})
        ELSE IF base_null THEN GdtFailure(base_old, {})
        ELSE IF 0 = idx64_0 THEN GdtSuccess({}, {})
        ELSE IF idx64_0 >= (bytes64_0 \div 8) THEN GdtFailure(base_old, {})
        ELSE IF And(gdtr.base[idx64_0], SYSTEM_BIT) = {}
        THEN IF idx64_1 >= (bytes64_1 \div 8)
             THEN GdtFailure(base_old, {idx64_0})
             ELSE GdtSuccess(
                      Or(low, Shl(And(gdtr.base[idx64_1], BASE_MASK4), BASE_SHIFT4)),
                      {idx64_0, idx64_1})
        ELSE GdtSuccess(low, {idx64_0})

\* a plausible slip: the bounds test comes before the test for index 0
get_gdt_descriptor_attrib_bounds_first(gdtr, selector, attrib_null, attrib_old) ==
    LET idx64 == selector \div 8
        bytes64 == Uint64(gdtr.limit + 1)
    IN  IF gdtr.null THEN GdtFailure(attrib_old, {})
        ELSE IF attrib_null THEN GdtFailure(attrib_old, {})
        ELSE IF idx64 >= (bytes64 \div 8) THEN GdtFailure(attrib_old, {})
        ELSE IF 0 = idx64 THEN GdtSuccess({}, {})
        ELSE GdtSuccess(
                 Or(Uint16(Shr(And(gdtr.base[idx64], ATTRIB_MASK1), ATTRIB_SHIFT1)),
                    Uint16(Shr(And(gdtr.base[idx64], ATTRIB_MASK2), ATTRIB_SHIFT2))),
                 {idx64})

\* get_gdt_descriptor_attrib(gdtr, selector, attrib)
get_gdt_descriptor_attrib(gdtr, selector, attrib_null, attrib_old) ==
    LET idx64 == selector \div 8
        bytes64 == Uint64(gdtr.limit + 1)
    IN  IF gdtr.null THEN GdtFailure(attrib_old, {})
        ELSE IF attrib_null THEN GdtFailure(attrib_old, {})
        ELSE IF 0 = idx64 THEN GdtSuccess({}, {})
        ELSE IF idx64 >= (bytes64 \div 8) THEN GdtFailure(attrib_old, {})
        ELSE GdtSuccess(
                 Or(Uint16(Shr(And(gdtr.base[idx64], ATTRIB_MASK1), ATTRIB_SHIFT1)),
                    Uint16(Shr(And(gdtr.base[idx64], ATTRIB_MASK2), ATTRIB_SHIFT2))),
                 {idx64})

\* the two functions on their own, applied to every table, limit, selector
\* and output pointer above
InitGdt ==
    /\ AtRest("gdt_only")
    /\ call \in [ fn : {"get_gdt_descriptor_base", "get_gdt_descriptor_attrib"},
                   gdtr : Gdtrs,
                   selector : Selectors,
                   out_null : BOOLEAN ]
    /\ result = NoResult

GetGdtDescriptorBase ==
    /\ pc = "gdt_only"
    /\ call.fn = "get_gdt_descriptor_base"
    /\ result' = get_gdt_descriptor_base(call.gdtr, call.selector,
                                         call.out_null, OldOutput)
    /\ pc' = "gdt_done"
    /\ UNCHANGED call
    /\ StaysAtRest

GetGdtDescriptorAttrib ==
    /\ pc = "gdt_only"
    /\ call.fn = "get_gdt_descriptor_attrib"
    /\ result' = get_gdt_descriptor_attrib(call.gdtr, call.selector,
                                           call.out_null, OldOutput)
    /\ pc' = "gdt_done"
    /\ UNCHANGED call
    /\ StaysAtRest

NextGdt ==
    \/ GetGdtDescriptorBase
    \/ GetGdtDescriptorAttrib

SpecGdt == InitGdt /\ [][NextGdt]_vars

\* ------------------------------------------ pte_t, page_table_entry_x64

\* struct pte_t: the bit-fields and their widths in declaration order; the
\* compiler packs them into one uint64_t from bit 0 upwards
pte_t ==
    << << "p", 1 >>, << "rw", 1 >>, << "us", 1 >>, << "pwt", 1 >>,
       << "pcd", 1 >>, << "a", 1 >>, << "d", 1 >>, << "pat", 1 >>,
       << "g", 1 >>, << "avl", 3 >>, << "phys", 40 >>,
       << "auto_release", 7 >>, << "mpk", 4 >>, << "nx", 1 >> >>

PteFields == { pte_t[i][1] : i \in DOMAIN pte_t }

PteIndex(f) == CHOOSE i \in DOMAIN pte_t : pte_t[i][1] = f

PteWidth(f) == pte_t[PteIndex(f)][2]

\* the position of the lowest bit of the i-th field
RECURSIVE PteOffsetAt(_)
PteOffsetAt(i) == IF i = 1 THEN 0 ELSE PteOffsetAt(i - 1) + pte_t[i - 1][2]

PteOffset(f) == PteOffsetAt(PteIndex(f))

PteRange(f) == PteOffset(f) .. (PteOffset(f) + PteWidth(f) - 1)

\* reading the field f of an entry, and storing v in it: a store keeps the
\* low bits of v that fit the field and leaves the other fields alone
pte_t_read(w, f) == { b - PteOffset(f) : b \in w \cap PteRange(f) }

pte_t_write(w, f, v) ==
    (w \ PteRange(f))
        \cup { b + PteOffset(f) : b \in v \cap Bits(0, PteWidth(f) - 1) }

\* bitmanip.h and maskmanip.h
is_bit_enabled(w, b) == b \in w

set_bit(w, b) == w \cup {b}

clear_bit(w, b) == w \ {b}

get_mask(w, mask) == w \cap mask

set_mask(w, mask, v) == (w \ mask) \cup (v \cap mask)

\* the bit each pair of accessors of page_table_entry_x64 tests and sets
AccessorBit ==
    [ present |-> 0, rw |-> 1, us |-> 2, pwt |-> 3, pcd |-> 4, accessed |-> 5,
      dirty |-> 6, ps |-> 7, pat |-> 7, global |-> 8, nx |-> 63 ]

BitAccessors == DOMAIN AccessorBit

\* bool page_table_entry_x64::present() const and the like
get_accessor(w, a) == is_bit_enabled(w, AccessorBit[a])

\* a plausible slip: the bit is set but never cleared
set_accessor_never_clears(w, a, enabled) ==
    IF enabled THEN set_bit(w, AccessorBit[a]) ELSE w

\* void page_table_entry_x64::set_present(bool enabled) and the like
set_accessor(w, a, enabled) ==
    IF enabled THEN set_bit(w, AccessorBit[a]) ELSE clear_bit(w, AccessorBit[a])

\* a plausible slip: 0x0000FFFFFFFFF000
phys_addr_narrow(w) == get_mask(w, Bits(12, 47))

\* page_table_entry_x64::phys_addr, with 0x000FFFFFFFFFF000
phys_addr(w) == get_mask(w, Bits(12, 51))

\* page_table_entry_x64::set_phys_addr
set_phys_addr(w, addr) == set_mask(w, Bits(12, 51), addr)

\* the addresses handed to set_phys_addr: page 0, the lowest and the highest
\* frame bit, every frame bit, and an address with every bit set
PhysAddrs == { {}, {12}, {51}, Bits(12, 51), Bits(0, 63) }

\* the values stored in the fields of pte_t: 0, 1 and all ones
FieldValues == { {}, {0}, Bits(0, 63) }

\* the entries written to: the empty one, the one with every bit set, and
\* for each field the entry holding only that field and all but that field
PteWords ==
    { {}, Bits(0, 63) }
        \cup { PteRange(f) : f \in PteFields }
        \cup { Bits(0, 63) \ PteRange(f) : f \in PteFields }

\* one entry and one write to it, through an accessor or through a field
InitPte ==
    /\ AtRest("pte")
    /\ call = [fn |-> "pte_t"]
    /\ result \in [pte : PteWords, last : {[fn |-> "none"]}]

SetAccessor ==
    /\ pc = "pte"
    /\ \E a \in BitAccessors, enabled \in BOOLEAN :
          result' = [ pte |-> set_accessor(result.pte, a, enabled),
                      last |-> [ fn |-> "set_accessor", a |-> a,
                                 enabled |-> enabled,
                                 before |-> result.pte ] ]
    /\ pc' = "pte_done"
    /\ UNCHANGED call
    /\ StaysAtRest

SetPhysAddr ==
    /\ pc = "pte"
    /\ \E addr \in PhysAddrs :
          result' = [ pte |-> set_phys_addr(result.pte, addr),
                      last |-> [ fn |-> "set_phys_addr", addr |-> addr,
                                 before |-> result.pte ] ]
    /\ pc' = "pte_done"
    /\ UNCHANGED call
    /\ StaysAtRest

PteWrite ==
    /\ pc = "pte"
    /\ \E f \in PteFields, v \in FieldValues :
          result' = [ pte |-> pte_t_write(result.pte, f, v),
                      last |-> [ fn |-> "pte_t_write", f |-> f, v |-> v,
                                 before |-> result.pte ] ]
    /\ pc' = "pte_done"
    /\ UNCHANGED call
    /\ StaysAtRest

NextPte ==
    \/ SetAccessor
    \/ SetPhysAddr
    \/ PteWrite

SpecPte == InitPte /\ [][NextPte]_vars

\* ------------------------------------------------- vcpu (intel_x64)

\* the bits of CR0, CR4 and IA32_EFER that setup names
RegisterBit ==
    [ protection_enable |-> 0, monitor_coprocessor |-> 1, extension_type |-> 4,
      numeric_error |-> 5, write_protect |-> 16, paging |-> 31,
      lme |-> 8, lma |-> 10, nxe |-> 11,
      v8086_mode_extensions |-> 0, protected_mode_virtual_interrupts |-> 1,
      time_stamp_disable |-> 2, debugging_extensions |-> 3,
      page_size_extensions |-> 4, physical_address_extensions |-> 5,
      machine_check_enable |-> 6, page_global_enable |-> 7,
      performance_monitor_counter_enable |-> 8, osfxsr |-> 9,
      osxmmexcpt |-> 10, vmx_enable_bit |-> 13, osxsave |-> 18,
      smep_enable_bit |-> 20, smap_enable_bit |-> 21 ]

Mask(names) == { RegisterBit[n] : n \in names }

\* g_mm->descriptors(): the memory of the VMM, one page of code and one of
\* data
MemoryDescriptors ==
    { [virt |-> {12}, phys |-> {13}, type |-> {"MEMORY_TYPE_R", "MEMORY_TYPE_E"}],
      [virt |-> {21}, phys |-> {14}, type |-> {"MEMORY_TYPE_R", "MEMORY_TYPE_W"}] }

\* g_cr3: the value of cr3() and of pat() of the host page table
g_cr3 == [cr3 |-> {12, 16}, pat |-> {1, 2, 9, 10}]

\* the g_cr3->map_4k calls of setup
map_descriptors ==
    { [ virt |-> md.virt, phys |-> md.phys,
        attr |-> IF md.type = {"MEMORY_TYPE_R", "MEMORY_TYPE_E"}
                 THEN "read_execute" ELSE "read_write" ] :
      md \in MemoryDescriptors }

\* g_once_flag, g_cr0_reg, g_cr3_reg, g_cr4_reg, g_ia32_pat_msr and
\* g_ia32_efer_msr before setup: value-initialised; maps holds the calls of
\* map_4k made on g_cr3 and setups counts the runs of setup
NoGlobals ==
    [ once |-> FALSE, cr0 |-> {}, cr3 |-> {}, cr4 |-> {}, pat |-> {},
      efer |-> {}, maps |-> {}, setups |-> 0 ]

\* a plausible slip: OSXSAVE is set whatever CPUID reports
setup_always_osxsave(glob, cpuid) ==
    [ glob EXCEPT
        !.setups = @ + 1,
        !.maps = @ \cup map_descriptors,
        !.cr3 = g_cr3.cr3,
        !.pat = g_cr3.pat,
        !.efer = @ \cup Mask({"lme", "lma", "nxe"}),
        !.cr0 = @ \cup Mask({"protection_enable", "monitor_coprocessor",
                             "extension_type", "numeric_error",
                             "write_protect", "paging"}),
        !.cr4 = @ \cup Mask({"v8086_mode_extensions",
                             "protected_mode_virtual_interrupts",
                             "time_stamp_disable", "debugging_extensions",
                             "page_size_extensions",
                             "physical_address_extensions",
                             "machine_check_enable", "page_global_enable",
                             "performance_monitor_counter_enable", "osfxsr",
                             "osxmmexcpt", "vmx_enable_bit", "osxsave"})
                   \cup (IF cpuid.smep THEN Mask({"smep_enable_bit"}) ELSE {})
                   \cup (IF cpuid.smap THEN Mask({"smap_enable_bit"}) ELSE {}) ]

\* static void setup(): the shared host values
setup(glob, cpuid) ==
    [ glob EXCEPT
        !.setups = @ + 1,
        !.maps = @ \cup map_descriptors,
        !.cr3 = g_cr3.cr3,
        !.pat = g_cr3.pat,
        !.efer = @ \cup Mask({"lme", "lma", "nxe"}),
        !.cr0 = @ \cup Mask({"protection_enable", "monitor_coprocessor",
                             "extension_type", "numeric_error",
                             "write_protect", "paging"}),
        !.cr4 = @ \cup Mask({"v8086_mode_extensions",
                             "protected_mode_virtual_interrupts",
                             "time_stamp_disable", "debugging_extensions",
                             "page_size_extensions",
                             "physical_address_extensions",
                             "machine_check_enable", "page_global_enable",
                             "performance_monitor_counter_enable", "osfxsr",
                             "osxmmexcpt", "vmx_enable_bit"})
                   \cup (IF cpuid.xsave THEN Mask({"osxsave"}) ELSE {})
                   \cup (IF cpuid.smep THEN Mask({"smep_enable_bit"}) ELSE {})
                   \cup (IF cpuid.smap THEN Mask({"smap_enable_bit"}) ELSE {}) ]

\* a plausible slip: the flag is not tested
call_once_every_time(glob, cpuid) == [setup(glob, cpuid) EXCEPT !.once = TRUE]

\* bfn::call_once(g_once_flag, setup)
call_once(glob, cpuid) ==
    IF glob.once THEN glob ELSE [setup(glob, cpuid) EXCEPT !.once = TRUE]

\* the vCPUs constructed: a host vCPU and a guest vCPU
VcpuIds == {0, 65536}

is_host_vcpu(id) == id < 65536

\* the VMCS fields of a vCPU before its constructor writes them
NewVcpu ==
    [ pc |-> "new", host_cr0 |-> {}, host_cr3 |-> {}, host_cr4 |-> {},
      host_ia32_pat |-> {}, host_ia32_efer |-> {},
      pin |-> {}, proc |-> {}, proc2 |-> {}, exit |-> {}, entry |-> {} ]

\* the capability MSR each control field is checked against
ControlFields == {"pin", "proc", "proc2", "exit", "entry"}

\* the low half of a capability MSR (bits that must be 1) and its high half
\* (bits that may be 1)
MsrLow(msr) == And(Shr(msr, 0), Bits(0, 31))

MsrHigh(msr) == And(Shr(msr, 32), Bits(0, 31))

\* a plausible slip: only the allowed-1 half is written
initial_control_allowed_only(msr) == MsrHigh(msr)

\* the value of the set() calls at the top of write_control_state
initial_control(msr) == And(MsrLow(msr), MsrHigh(msr))

\* the enable() and enable_if_allowed() calls of write_control_state, in
\* the order of the code
ControlRequests ==
    << [name |-> "use_msr_bitmap", field |-> "proc", bit |-> 28,
        if_allowed |-> FALSE, host_only |-> FALSE],
       [name |-> "use_io_bitmaps", field |-> "proc", bit |-> 25,
        if_allowed |-> FALSE, host_only |-> FALSE],
       [name |-> "activate_secondary_controls", field |-> "proc", bit |-> 31,
        if_allowed |-> TRUE, host_only |-> FALSE],
       [name |-> "enable_rdtscp", field |-> "proc2", bit |-> 3,
        if_allowed |-> TRUE, host_only |-> TRUE],
       [name |-> "enable_invpcid", field |-> "proc2", bit |-> 12,
        if_allowed |-> TRUE, host_only |-> TRUE],
       [name |-> "enable_xsaves_xrstors", field |-> "proc2", bit |-> 20,
        if_allowed |-> TRUE, host_only |-> TRUE],
       [name |-> "save_debug_controls", field |-> "exit", bit |-> 2,
        if_allowed |-> FALSE, host_only |-> FALSE],
       [name |-> "host_address_space_size", field |-> "exit", bit |-> 9,
        if_allowed |-> FALSE, host_only |-> FALSE],
       [name |-> "load_ia32_perf_global_ctrl", field |-> "exit", bit |-> 12,
        if_allowed |-> TRUE, host_only |-> FALSE],
       [name |-> "save_ia32_pat", field |-> "exit", bit |-> 18,
        if_allowed |-> FALSE, host_only |-> FALSE],
       [name |-> "load_ia32_pat", field |-> "exit", bit |-> 19,
        if_allowed |-> FALSE, host_only |-> FALSE],
       [name |-> "save_ia32_efer", field |-> "exit", bit |-> 20,
        if_allowed |-> FALSE, host_only |-> FALSE],
       [name |-> "load_ia32_efer", field |-> "exit", bit |-> 21,
        if_allowed |-> FALSE, host_only |-> FALSE],
       [name |-> "load_debug_controls", field |-> "entry", bit |-> 2,
        if_allowed |-> FALSE, host_only |-> FALSE],
       [name |-> "ia_32e_mode_guest", field |-> "entry", bit |-> 9,
        if_allowed |-> FALSE, host_only |-> FALSE],
       [name |-> "load_ia32_perf_global_ctrl", field |-> "entry", bit |-> 13,
        if_allowed |-> TRUE, host_only |-> FALSE],
       [name |-> "load_ia32_pat", field |-> "entry", bit |-> 14,
        if_allowed |-> FALSE, host_only |-> FALSE],
       [name |-> "load_ia32_efer", field |-> "entry", bit |-> 15,
        if_allowed |-> FALSE, host_only |-> FALSE] >>

\* is_allowed1: the bit is set in the high half of the capability MSR
is_allowed1(msr, bit) == bit \in MsrHigh(msr)

\* one enable() or enable_if_allowed() call on the VMCS fields v
enable(v, req, msrs, host) ==
    IF \/ req.host_only /\ ~host
       \/ req.if_allowed /\ ~is_allowed1(msrs[req.field], req.bit)
    THEN v
    ELSE [v EXCEPT ![req.field] = @ \cup {req.bit}]

RECURSIVE EnableRequests(_, _, _, _)
EnableRequests(v, n, msrs, host) ==
    IF n = 0 THEN v
    ELSE enable(EnableRequests(v, n - 1, msrs, host), ControlRequests[n],
                msrs, host)

\* the values a capability MSR is given: nothing required or allowed,
\* everything allowed, everything required and allowed, bits required that
\* are not allowed, and a typical mix
MsrValues ==
    [ none |-> {}, allowed |-> Bits(32, 63), all |-> Bits(0, 63),
      required |-> Bits(0, 31),
      mixed |-> {1, 2, 4, 16} \cup {33, 34, 36, 48}
                    \cup {32 + 3, 32 + 13, 32 + 28, 32 + 31} ]

\* the capability MSRs of the machine: the same value in each, or a
\* different one in each
MsrSets ==
    { [f \in ControlFields |-> MsrValues[k]] : k \in DOMAIN MsrValues }
        \cup { [pin |-> MsrValues.mixed, proc |-> MsrValues.allowed,
                 proc2 |-> MsrValues.none, exit |-> MsrValues.all,
                 entry |-> MsrValues.required],
               [pin |-> MsrValues.required, proc |-> MsrValues.mixed,
                 proc2 |-> MsrValues.allowed, exit |-> MsrValues.none,
                 entry |-> MsrValues.all] }

\* what CPUID reports
CpuidSets == [xsave : BOOLEAN, smep : BOOLEAN, smap : BOOLEAN]

InitVcpu ==
    /\ AtRest("vcpu")
    /\ call \in [fn : {"vcpu"}, cpuid : CpuidSets, msrs : MsrSets]
    /\ result = [glob |-> NoGlobals, vcpu |-> [id \in VcpuIds |-> NewVcpu]]

VcpuStep(id, from, to) ==
    /\ pc = "vcpu"
    /\ result.vcpu[id].pc = from
    /\ UNCHANGED << pc, call >>
    /\ StaysAtRest

\* vcpu::vcpu up to bfn::call_once(g_once_flag, setup)
VcpuCallOnce(id) ==
    /\ VcpuStep(id, "new", "once")
    /\ result' = [result EXCEPT
                     !.glob = call_once(@, call.cpuid),
                     !.vcpu[id].pc = "once"]

\* vcpu::write_host_state
WriteHostState(id) ==
    /\ VcpuStep(id, "once", "host")
    /\ result' = [result EXCEPT
                     !.vcpu[id].host_ia32_pat = result.glob.pat,
                     !.vcpu[id].host_ia32_efer = result.glob.efer,
                     !.vcpu[id].host_cr0 = result.glob.cr0,
                     !.vcpu[id].host_cr3 = result.glob.cr3,
                     !.vcpu[id].host_cr4 = result.glob.cr4,
                     !.vcpu[id].pc = "host"]

\* vcpu::write_control_state: the four set() calls
WriteControls(id) ==
    /\ VcpuStep(id, "host", "controls")
    /\ result' = [result EXCEPT
                     !.vcpu[id].pin = initial_control(call.msrs.pin),
                     !.vcpu[id].proc = initial_control(call.msrs.proc),
                     !.vcpu[id].exit = initial_control(call.msrs.exit),
                     !.vcpu[id].entry = initial_control(call.msrs.entry),
                     !.vcpu[id].pc = "controls"]

\* vcpu::write_control_state: the enable() and enable_if_allowed() calls
EnableControls(id) ==
    /\ VcpuStep(id, "controls", "done")
    /\ result' = [result EXCEPT
                     !.vcpu[id] =
                         [EnableRequests(@, Len(ControlRequests), call.msrs,
                                         is_host_vcpu(id))
                            EXCEPT !.pc = "done"]]

NextVcpu ==
    \/ \E id \in VcpuIds : VcpuCallOnce(id)
    \/ \E id \in VcpuIds : WriteHostState(id)
    \/ \E id \in VcpuIds : WriteControls(id)
    \/ \E id \in VcpuIds : EnableControls(id)

SpecVcpu == InitVcpu /\ [][NextVcpu]_vars

\* ------------------------------------------------- root page table

\* the shift of the index of each level: PML4, PDPT, PD, PT
RptShifts == << 39, 30, 21, 12 >>

\* (V >> shift) & 0x1FF
RptIndex(V, level) == And(Shr(V, RptShifts[level]), Bits(0, 8))

\* the virtual addresses mapped: page 0, and addresses that differ from it
\* in the PT index, and in the PD and the PML4 index
VirtAddrs == { {}, {12}, {21, 39} }

RptIndexes == { RptIndex(V, level) : V \in VirtAddrs, level \in 1 .. 4 }

\* the frames mapped, by physical address, and the mode requested for each
Requests ==
    { [phys |-> {12}, attr |-> "RW"], [phys |-> Bits(12, 51), attr |-> "RX"] }

\* the number of a page as the value of a phys field, and back
FrameBits(n) == { i \in 0 .. 7 : (n \div (2 ^ i)) % 2 = 1 }

RECURSIVE FrameNumber(_)
FrameNumber(bits) ==
    IF bits = {} THEN 0
    ELSE LET i == CHOOSE b \in bits : TRUE
         IN  (2 ^ i) + FrameNumber(bits \ {i})

IsPresent(e) == pte_t_read(e, "p") = {0}

\* the entry installed in a parent table for the table in page n:
\* p=1, rw=1, us=0, auto_release=1
TableEntry(n) ==
    pte_t_write(pte_t_write(pte_t_write(pte_t_write({},
        "p", {0}), "rw", {0}), "auto_release", {0}), "phys", FrameBits(n))

\* a plausible slip: the address is stored without the shift by 12
LeafEntry_unshifted(phys, attr) ==
    pte_t_write(pte_t_write(pte_t_write(pte_t_write({},
        "p", {0}),
        "rw", IF attr = "RW" THEN {0} ELSE {}),
        "nx", IF attr = "RX" THEN {} ELSE {0}),
        "phys", phys)

\* the leaf entry for the frame at phys with the requested mode
LeafEntry(phys, attr) ==
    pte_t_write(pte_t_write(pte_t_write(pte_t_write({},
        "p", {0}),
        "rw", IF attr = "RW" THEN {0} ELSE {}),
        "nx", IF attr = "RX" THEN {} ELSE {0}),
        "phys", Shr(phys, 12))

\* a fresh, zeroed 4 KiB page holding a table of the given level
ZeroTable(level) == [level |-> level, e |-> [i \in RptIndexes |-> {}]]

\* the root page table: its PML4 is page 0
EmptyRpt == [n \in {0} |-> ZeroTable(1)]

NextPage(tables) == Cardinality(DOMAIN tables)

NoTable == [ok |-> FALSE, page |-> 0]

\* a plausible slip: a table that is already there is replaced
alloc_table_overwrites(tables, parent, V) ==
    LET idx == RptIndex(V, tables[parent].level)
        n == NextPage(tables)
    IN  [ ret |-> [ok |-> TRUE, page |-> n],
          tables |->
              [ f \in DOMAIN tables \cup {n} |->
                  IF f = n THEN ZeroTable(tables[parent].level + 1)
                  ELSE IF f = parent
                  THEN [tables[f] EXCEPT !.e[idx] = TableEntry(n)]
                  ELSE tables[f] ] ]

\* alloc_pdpt, alloc_pdt, alloc_pt: allocate a table and add it to the
\* parent; fails when the parent already has one at the index of V
alloc_table(tables, parent, V) ==
    LET idx == RptIndex(V, tables[parent].level)
        n == NextPage(tables)
    IN  IF IsPresent(tables[parent].e[idx])
        THEN [ret |-> NoTable, tables |-> tables]
        ELSE [ ret |-> [ok |-> TRUE, page |-> n],
               tables |->
                   [ f \in DOMAIN tables \cup {n} |->
                       IF f = n THEN ZeroTable(tables[parent].level + 1)
                       ELSE IF f = parent
                       THEN [tables[f] EXCEPT !.e[idx] = TableEntry(n)]
                       ELSE tables[f] ] ]

\* map(rpt, virt, phys, attr) from the table in page f downwards
RECURSIVE map_from(_, _, _, _, _)
map_from(tables, f, V, phys, attr) ==
    LET idx == RptIndex(V, tables[f].level)
        e == tables[f].e[idx]
    IN  IF tables[f].level = 4
        THEN IF IsPresent(e)
             THEN [ok |-> FALSE, tables |-> tables]
             ELSE [ ok |-> TRUE,
                    tables |-> [tables EXCEPT
                                  ![f].e[idx] = LeafEntry(phys, attr)] ]
        ELSE IF IsPresent(e)
        THEN map_from(tables, FrameNumber(pte_t_read(e, "phys")), V, phys, attr)
        ELSE LET a == alloc_table(tables, f, V)
             IN  map_from(a.tables, a.ret.page, V, phys, attr)

\* the entries met when walking from the table in page f to the leaf of V,
\* up to the first one that is not present
RECURSIVE Walk(_, _, _)
Walk(tables, f, V) ==
    IF f \notin DOMAIN tables THEN << >>
    ELSE LET e == tables[f].e[RptIndex(V, tables[f].level)]
         IN  IF ~IsPresent(e) \/ tables[f].level = 4 THEN << e >>
             ELSE << e >> \o Walk(tables, FrameNumber(pte_t_read(e, "phys")), V)

NotMapped == [phys |-> {}, attr |-> "none"]

\* no table but the PML4, nothing mapped
InitRpt ==
    /\ AtRest("rpt")
    /\ call = [fn |-> "rpt"]
    /\ result = [ tables |-> EmptyRpt,
                  intended |-> [V \in VirtAddrs |-> NotMapped],
                  last |-> [fn |-> "none"] ]

\* map(rpt, virt, phys, attr)
Map ==
    /\ pc = "rpt"
    /\ \E V \in VirtAddrs, req \in Requests :
          LET m == map_from(result.tables, 0, V, req.phys, req.attr)
          IN  result' =
                  [ tables |-> m.tables,
                    intended |->
                        IF m.ok
                        THEN [result.intended EXCEPT
                                ![V] = req]
                        ELSE result.intended,
                    last |-> [fn |-> "map", virt |-> V, ok |-> m.ok] ]
    /\ UNCHANGED << pc, call >>
    /\ StaysAtRest

\* alloc_pt(pdt, virt) on one of the page directories of the table
AllocPt ==
    /\ pc = "rpt"
    /\ \E pdt \in { f \in DOMAIN result.tables : result.tables[f].level = 3 },
          V \in VirtAddrs :
          LET a == alloc_table(result.tables, pdt, V)
          IN  result' =
                  [ result EXCEPT
                      !.tables = a.tables,
                      !.last = [fn |-> "alloc_pt", pdt |-> pdt, virt |-> V,
                                ret |-> a.ret] ]
    /\ UNCHANGED << pc, call >>
    /\ StaysAtRest

NextRpt ==
    \/ Map
    \/ AllocPt

SpecRpt == InitRpt /\ [][NextRpt]_vars

\* ------------------------------------------------- object_allocator

\* the object sizes an allocator is constructed with
ObjectSizes == 0 .. BAREFLANK_PAGE_SIZE

\* object_allocator::object_allocator(size): the stacks are empty. A stack
\* is the sequence of the object_t records linked from its top; addr[o] is
\* the addr field of the record o, pages the pages of the page stack
object_allocator(size) ==
    [ m_size |-> IF size = 0 THEN 1 ELSE size,
      free |-> << >>, used |-> << >>, addr |-> << >>, pages |-> << >> ]

\* alloc_page: the pages handed out are page 1, page 2, ...
alloc_page(oa) == (Len(oa.pages) + 1) * BAREFLANK_PAGE_SIZE

\* get_next_object followed by free_stack_push(object) and the store to
\* object->addr
push_new_free(oa, a) ==
    [ oa EXCEPT !.addr = Append(@, a), !.free = << Len(oa.addr) + 1 >> \o @ ]

\* a plausible slip: the loop runs while i < BAREFLANK_PAGE_SIZE
RECURSIVE carve_overhang(_, _, _)
carve_overhang(oa, page, i) ==
    IF i < BAREFLANK_PAGE_SIZE
    THEN carve_overhang(push_new_free(oa, page + i), page, i + oa.m_size)
    ELSE oa

\* the loop of add_to_free_stack from offset i on
RECURSIVE carve(_, _, _)
carve(oa, page, i) ==
    IF i + oa.m_size <= BAREFLANK_PAGE_SIZE
    THEN carve(push_new_free(oa, page + i), page, i + oa.m_size)
    ELSE oa

\* object_allocator::add_to_free_stack
add_to_free_stack(oa) ==
    LET page == alloc_page(oa)
    IN  carve([oa EXCEPT !.pages = Append(@, page)], page, 0)

\* object_allocator::free_stack_pop: the record popped and the allocator
free_stack_pop(oa) ==
    LET b == IF oa.free = << >> THEN add_to_free_stack(oa) ELSE oa
    IN  [top |-> Head(b.free), oa |-> [b EXCEPT !.free = Tail(@)]]

\* object_allocator::used_stack_pop: an empty used stack is given a new
\* record first, whose addr holds whatever its page held
used_stack_pop(oa) ==
    LET b == IF oa.used = << >>
             THEN [oa EXCEPT !.addr = Append(@, NULL),
                             !.used = << Len(oa.addr) + 1 >>]
             ELSE oa
    IN  [top |-> Head(b.used), oa |-> [b EXCEPT !.used = Tail(@)]]

\* a plausible slip: the record popped is not pushed on the used stack
allocate_leaks(oa) ==
    LET p == free_stack_pop(oa)
    IN  [ret |-> p.oa.addr[p.top], oa |-> p.oa]

\* object_allocator::allocate
allocate(oa) ==
    LET p == free_stack_pop(oa)
    IN  [ ret |-> p.oa.addr[p.top],
          oa |-> [p.oa EXCEPT !.used = << p.top >> \o @] ]

\* a plausible slip: the address given back is not stored in the record
deallocate_keeps_addr(oa, ptr) ==
    LET p == used_stack_pop(oa)
    IN  [p.oa EXCEPT !.free = << p.top >> \o @]

\* object_allocator::deallocate
deallocate(oa, ptr) ==
    LET p == used_stack_pop(oa)
    IN  [p.oa EXCEPT !.free = << p.top >> \o @, !.addr[p.top] = ptr]

Range(seq) == { seq[i] : i \in DOMAIN seq }

\* one allocator; held is the set of the addresses allocated and not yet
\* deallocated, carved the set of the addresses add_to_free_stack made, and
\* matching says that every deallocate so far was given a held address
InitOa ==
    /\ AtRest("oa")
    /\ call = [fn |-> "object_allocator"]
    /\ \E size \in ObjectSizes :
          result = [ oa |-> object_allocator(size), size |-> size,
                     held |-> {}, carved |-> {}, matching |-> TRUE,
                     last |-> [fn |-> "none"] ]

Allocate ==
    /\ pc = "oa"
    /\ Cardinality(result.held) < MaxOutstanding
    /\ result.oa.free = << >> => Len(result.oa.pages) < MaxPages
    /\ LET a == allocate(result.oa)
       IN  result' =
               [ result EXCEPT
                   !.oa = a.oa,
                   !.held = @ \cup {a.ret},
                   !.carved =
                       @ \cup { a.oa.addr[o] :
                                  o \in (Len(result.oa.addr) + 1)
                                            .. Len(a.oa.addr) },
                   !.last = [fn |-> "allocate", ptr |-> a.ret] ]
    /\ UNCHANGED << pc, call >>
    /\ StaysAtRest

\* deallocate of an address that is held
Deallocate ==
    /\ pc = "oa"
    /\ \E ptr \in result.held :
          result' =
              [ result EXCEPT
                  !.oa = deallocate(@, ptr),
                  !.held = @ \ {ptr},
                  !.last = [fn |-> "deallocate", ptr |-> ptr] ]
    /\ UNCHANGED << pc, call >>
    /\ StaysAtRest

\* deallocate of an address that is not held: one that was never allocated
\* or one that is already back on the free stack
DeallocateStray ==
    /\ pc = "oa"
    /\ result.matching
    /\ \E ptr \in ({NULL} \cup { result.oa.addr[o] : o \in Range(result.oa.free) })
                       \ result.held :
          result' =
              [ result EXCEPT
                  !.oa = deallocate(@, ptr),
                  !.matching = FALSE,
                  !.last = [fn |-> "deallocate", ptr |-> ptr] ]
    /\ UNCHANGED << pc, call >>
    /\ StaysAtRest

NextOa ==
    \/ Allocate
    \/ Deallocate
    \/ DeallocateStray

SpecOa == InitOa /\ [][NextOa]_vars

\* ----------------------------------------------------- bfn vector helpers

\* index >= 0 && index < v.size(): the second comparison is made after the
\* conversion of index to the unsigned type of size()
expects_index(v, index) == index >= 0 /\ Uint64(index) < Len(v)

\* the element an iterator at position pos refers to; off the vector the
\* read is undefined, which no call below reaches
deref(v, pos) == IF pos + 1 \in DOMAIN v THEN v[pos + 1] ELSE 0

\* std::vector::erase of the element at position pos
erase(v, pos) ==
    IF pos + 1 \in DOMAIN v
    THEN [i \in 1 .. (Len(v) - 1) |-> IF i <= pos THEN v[i] ELSE v[i + 1]]
    ELSE v

\* the outcome of a call: whether gsl::fail_fast was thrown, the iterator
\* position or the value returned, and the vector afterwards
Thrown(v) == [threw |-> TRUE, ret |-> 0, v |-> v]

Returned(value, v) == [threw |-> FALSE, ret |-> value, v |-> v]

\* bfn::find: v.begin() + index
find(v, index) ==
    IF ~expects_index(v, index) THEN Thrown(v) ELSE Returned(index, v)

\* a plausible slip: index <= v.size()
cfind_off_by_one(v, index) ==
    IF ~(index >= 0 /\ Uint64(index) <= Len(v))
    THEN Thrown(v)
    ELSE Returned(index, v)

\* bfn::cfind: v.cbegin() + index
cfind(v, index) ==
    IF ~expects_index(v, index) THEN Thrown(v) ELSE Returned(index, v)

\* bfn::remove
remove(v, index) ==
    LET iter == cfind(v, index)
    IN  IF iter.threw THEN iter ELSE Returned(0, erase(v, iter.ret))

\* a plausible slip: the element is read after the erase
take_reads_after_erase(v, index) ==
    LET iter == cfind(v, index)
    IN  IF iter.threw THEN iter
        ELSE Returned(deref(erase(v, iter.ret), iter.ret), erase(v, iter.ret))

\* bfn::take
take(v, index) ==
    LET iter == cfind(v, index)
    IN  IF iter.threw THEN iter
        ELSE Returned(deref(v, iter.ret), erase(v, iter.ret))

\* the vectors the helpers are called on, and the indexes they are given
Vectors == { << >>, << 1 >>, << 1, 2, 3 >>, << 2, 2 >> }

Indexes == (-2 .. 4) \cup {10, -(2 ^ (Uint64Bits - 1))}

InitVector ==
    /\ AtRest("vector")
    /\ call = [fn |-> "vector"]
    /\ \E v \in Vectors : result = [v |-> v, last |-> [fn |-> "none"]]

\* one call of a helper on the vector; last keeps the call, the vector it
\* was made on and its outcome
VectorCall(fn, index, out) ==
    /\ pc = "vector"
    /\ result' = [ v |-> out.v,
                   last |-> [fn |-> fn, index |-> index, before |-> result.v,
                             threw |-> out.threw, ret |-> out.ret] ]
    /\ UNCHANGED << pc, call >>
    /\ StaysAtRest

Find == \E index \in Indexes : VectorCall("find", index, find(result.v, index))

Cfind ==
    \E index \in Indexes : VectorCall("cfind", index, cfind(result.v, index))

Take == \E index \in Indexes : VectorCall("take", index, take(result.v, index))

Remove ==
    \E index \in Indexes :
        VectorCall("remove", index, remove(result.v, index))

NextVector ==
    \/ Find
    \/ Cfind
    \/ Take
    \/ Remove

SpecVector == InitVector /\ [][NextVector]_vars

\* ----------------------------------------------- vcpu: guest state

\* the segment registers write_guest_state captures
SegmentRegisters == {"es", "cs", "ss", "ds", "fs", "gs", "ldtr", "tr"}

\* x64::access_rights: unusable and type::tss_busy
access_rights == [unusable |-> 65536, tss_busy |-> 11]

\* the selectors the running OS holds in a segment register: index 0 with
\* and without a privilege level, and index 2
SegmentSelectors == {0, 3, 19}

\* segment_register::index::get(): the selector without its low three bits
SegmentIndex(selector) == selector \div 8

\* what x64::gdt reads for the descriptors of the running OS
GuestGdt ==
    [ i \in 1 .. 2 |->
        [limit |-> 1000 * i + 1, access_rights |-> 100 * i + 2,
         base |-> 10000 * i + 3] ]

\* IA32_FS_BASE and IA32_GS_BASE of the running OS
BaseMsrs == { [fs |-> 5, gs |-> 6], [fs |-> 0, gs |-> 20003] }

\* a plausible slip: TR is treated like the other registers
guest_access_rights_tr_unusable(r, index) ==
    IF index # 0 THEN GuestGdt[index].access_rights
    ELSE access_rights.unusable

\* the value of guest_<r>_access_rights::set
guest_access_rights(r, index) ==
    IF index # 0 THEN GuestGdt[index].access_rights
    ELSE IF r = "tr" THEN access_rights.tss_busy + 128
    ELSE access_rights.unusable

\* the value of guest_<r>_base::set
guest_base(r, index, msrs) ==
    IF r = "fs" THEN msrs.fs
    ELSE IF r = "gs" THEN msrs.gs
    ELSE IF index # 0 THEN GuestGdt[index].base
    ELSE 0

\* vcpu::write_guest_state: the segment fields of the VMCS
write_guest_state(os) ==
    [ r \in SegmentRegisters |->
        LET index == SegmentIndex(os.selector[r]) IN
        [ selector |-> os.selector[r],
          limit |-> IF index # 0 THEN GuestGdt[index].limit ELSE 0,
          access_rights |-> guest_access_rights(r, index),
          base |-> guest_base(r, index, os.msrs) ] ]

\* the segment fields of a VMCS that was not written
NoGuestState ==
    [ r \in SegmentRegisters |->
        [selector |-> 0, limit |-> 0, access_rights |-> 0, base |-> 0] ]

InitGuest ==
    /\ AtRest("guest")
    /\ call \in [ fn : {"write_guest_state"},
                   selector : [SegmentRegisters -> SegmentSelectors],
                   msrs : BaseMsrs ]
    /\ result = [guest |-> NoGuestState]

WriteGuestState ==
    /\ pc = "guest"
    /\ pc' = "guest_written"
    /\ result' = [guest |-> write_guest_state(call)]
    /\ UNCHANGED call
    /\ StaysAtRest

NextGuest == WriteGuestState

SpecGuest == InitGuest /\ [][NextGuest]_vars

\* --------------------------------------------------- vcpu::gva_to_gpa

\* bfn::upper(ptr): ptr & ~0xFFF, and bfn::lower(ptr, from): the bits of ptr
\* below from
upper(ptr) == ptr \ Bits(0, 11)

lower(ptr, from) == { b \in ptr : b < from }

\* guest memory: the 64-bit entries of the page tables of the guest, by the
\* address of the table and the index in it; what is not listed reads zero
get_entry(mem, tble_gpa, index) ==
    IF << tble_gpa, index >> \in DOMAIN mem
    THEN mem[<< tble_gpa, index >>] ELSE {}

\* the pair returned, and the std::runtime_error thrown
Pair(first, second) == [threw |-> "", first |-> first, second |-> second]

RuntimeError(what) == [threw |-> what]

\* a plausible slip: the PS bit of the page directory entry is not tested
gva_to_gpa_pd_ignores_ps(mem, guest_cr0, guest_cr3, gva) ==
    IF RegisterBit.paging \notin guest_cr0 THEN Pair(gva, 0)
    ELSE
    LET pml4_pte == get_entry(mem, upper(guest_cr3), RptIndex(gva, 1))
        pdpt_pte == get_entry(mem, phys_addr(pml4_pte), RptIndex(gva, 2))
        pd_pte == get_entry(mem, phys_addr(pdpt_pte), RptIndex(gva, 3))
        pt_pte == get_entry(mem, phys_addr(pd_pte), RptIndex(gva, 4))
    IN  IF ~get_accessor(pml4_pte, "present")
        THEN RuntimeError("pml4_pte is not present")
        ELSE IF ~get_accessor(pdpt_pte, "present")
        THEN RuntimeError("pdpt_pte is not present")
        ELSE IF get_accessor(pdpt_pte, "ps")
        THEN Pair(Or(phys_addr(pdpt_pte), lower(gva, RptShifts[2])),
                  RptShifts[2])
        ELSE IF ~get_accessor(pd_pte, "present")
        THEN RuntimeError("pd_pte is not present")
        ELSE IF ~get_accessor(pt_pte, "present")
        THEN RuntimeError("pt_pte is not present")
        ELSE Pair(Or(phys_addr(pt_pte), lower(gva, RptShifts[4])),
                  RptShifts[4])

\* std::pair<uintptr_t, uintptr_t> vcpu::gva_to_gpa(uint64_t gva), with
\* guest_cr0 and guest_cr3 the fields of the VMCS it reads
gva_to_gpa(mem, guest_cr0, guest_cr3, gva) ==
    IF RegisterBit.paging \notin guest_cr0 THEN Pair(gva, 0)
    ELSE
    LET pml4_pte == get_entry(mem, upper(guest_cr3), RptIndex(gva, 1))
        pdpt_pte == get_entry(mem, phys_addr(pml4_pte), RptIndex(gva, 2))
        pd_pte == get_entry(mem, phys_addr(pdpt_pte), RptIndex(gva, 3))
        pt_pte == get_entry(mem, phys_addr(pd_pte), RptIndex(gva, 4))
    IN  IF ~get_accessor(pml4_pte, "present")
        THEN RuntimeError("pml4_pte is not present")
        ELSE IF ~get_accessor(pdpt_pte, "present")
        THEN RuntimeError("pdpt_pte is not present")
        ELSE IF get_accessor(pdpt_pte, "ps")
        THEN Pair(Or(phys_addr(pdpt_pte), lower(gva, RptShifts[2])),
                  RptShifts[2])
        ELSE IF ~get_accessor(pd_pte, "present")
        THEN RuntimeError("pd_pte is not present")
        ELSE IF get_accessor(pd_pte, "ps")
        THEN Pair(Or(phys_addr(pd_pte), lower(gva, RptShifts[3])),
                  RptShifts[3])
        ELSE IF ~get_accessor(pt_pte, "present")
        THEN RuntimeError("pt_pte is not present")
        ELSE Pair(Or(phys_addr(pt_pte), lower(gva, RptShifts[4])),
                  RptShifts[4])

\* the addresses of the page tables of the guest, one for each level, and
\* of the frame that a leaf entry of each level names
GuestTables == << {12}, {13}, {14}, {12, 13} >>

GuestFrames == << {13}, {30, 31}, {21, 22, 40}, {15, 51} >>

\* the entries a slot of a table of the given level may hold: zero, an entry
\* that names the table of the next level (the frame, at the last level)
\* with the writable and no-execute bits set, a present entry with the PS
\* bit that names the frame of the level, and that entry without the
\* present bit
GuestEntryKinds == {"zero", "table", "large", "large_absent"}

GuestEntry(level, kind) ==
    CASE kind = "zero" -> {}
      [] kind = "table" ->
            {0, 1, 63} \cup (IF level < 4 THEN GuestTables[level + 1]
                                         ELSE GuestFrames[level])
      [] kind = "large" -> {0, 7} \cup GuestFrames[level]
      [] kind = "large_absent" -> {7} \cup GuestFrames[level]

\* the guest memories: slot 1 of the table of each level holds an entry of
\* one of the kinds; every other slot is zero
GuestMemory(kinds) ==
    [ slot \in { << GuestTables[level], {0} >> : level \in 1 .. 4 } |->
        LET level == CHOOSE l \in 1 .. 4 : GuestTables[l] = slot[1]
        IN  GuestEntry(level, kinds[level]) ]

\* the guest virtual addresses translated: index 1 at every level with bits
\* set in the offset; index 1 down to the PDPT and down to the PD with the
\* highest bit below that page size set; index 0 in the PT, in the PDPT and
\* in the PML4; index 257 in the PML4
GuestVirtAddrs ==
    { {39, 30, 21, 12, 11, 0}, {39, 30, 29, 20, 11}, {39, 30, 21, 20, 11},
      {39, 30, 21, 3}, {39, 21, 12}, {30, 21, 12}, {47, 39, 30, 21, 12} }

\* guest CR3 with and without flag bits below the table address, and guest
\* CR0 with and without paging
GuestCr3s == { GuestTables[1], GuestTables[1] \cup {3, 4} }

GuestCr0s == { {0}, {0, RegisterBit.paging} }

InitGva ==
    /\ AtRest("gva")
    /\ call \in [ fn : {"gva_to_gpa"}, gva : GuestVirtAddrs,
                  guest_cr0 : GuestCr0s, guest_cr3 : GuestCr3s,
                  kinds : [1 .. 4 -> GuestEntryKinds] ]
    /\ result = [threw |-> "none"]

GvaToGpa ==
    /\ pc = "gva"
    /\ result' = gva_to_gpa(GuestMemory(call.kinds), call.guest_cr0,
                            call.guest_cr3, call.gva)
    /\ pc' = "gva_done"
    /\ UNCHANGED call
    /\ StaysAtRest

NextGva == GvaToGpa

SpecGva == InitGva /\ [][NextGva]_vars

\* ------------------------------------------------------------ vcpu, EPT

\* the ept::mmap objects handed to set_eptp
EptMaps == {1, 2}

\* the nine map functions of the vcpu: the ept::mmap function each calls
\* and the attr_type it passes
MapFunctions ==
    [ map_1g_ro |-> [size |-> "1g", attr |-> "read_only"],
      map_2m_ro |-> [size |-> "2m", attr |-> "read_only"],
      map_4k_ro |-> [size |-> "4k", attr |-> "read_only"],
      map_1g_rw |-> [size |-> "1g", attr |-> "read_write"],
      map_2m_rw |-> [size |-> "2m", attr |-> "read_write"],
      map_4k_rw |-> [size |-> "4k", attr |-> "read_write"],
      map_1g_rwe |-> [size |-> "1g", attr |-> "read_write_execute"],
      map_2m_rwe |-> [size |-> "2m", attr |-> "read_write_execute"],
      map_4k_rwe |-> [size |-> "4k", attr |-> "read_write_execute"] ]

\* the shift of each page size of an ept::mmap
EptShift == [1g |-> RptShifts[2], 2m |-> RptShifts[3], 4k |-> RptShifts[4]]

\* ept::mmap::virt_to_phys on the mappings made in a map: the frame of the
\* smallest mapping that covers gpa, with the offset of gpa in it
virt_to_phys(mappings, gpa) ==
    LET covers == { m \in mappings :
                      m.gpa = gpa \ Bits(0, EptShift[m.size] - 1) }
    IN  IF covers = {} THEN RuntimeError("virt_to_phys failed")
        ELSE LET m == CHOOSE c \in covers :
                          \A d \in covers :
                              EptShift[c.size] <= EptShift[d.size]
             IN  Pair(Or(m.hpa, lower(gpa, EptShift[m.size])),
                      EptShift[m.size])

\* the return of a void function
Void == [threw |-> ""]

\* a vcpu after its construction: no EPT map is set
NoEpt == [ m_mmap |-> NULL, eptp |-> NULL, maps |-> [m \in EptMaps |-> {}],
           out |-> Void ]

\* void vcpu::set_eptp(ept::mmap &map)
set_eptp(v, map) == [v EXCEPT !.eptp = map, !.m_mmap = map, !.out = Void]

\* void vcpu::disable_ept()
disable_ept(v) == [v EXCEPT !.eptp = NULL, !.m_mmap = NULL, !.out = Void]

\* std::pair<uintptr_t, uintptr_t> vcpu::gpa_to_hpa(uintptr_t gpa)
gpa_to_hpa(v, gpa) ==
    IF v.m_mmap = NULL THEN Pair(gpa, 0)
    ELSE virt_to_phys(v.maps[v.m_mmap], gpa)

\* a plausible slip: the test of m_mmap is left out
gva_to_hpa_always_translates(v, mem, guest_cr0, guest_cr3, gva) ==
    LET r == gva_to_gpa(mem, guest_cr0, guest_cr3, gva)
    IN  IF r.threw # "" THEN r
        ELSE gpa_to_hpa(v, r.first)

\* std::pair<uintptr_t, uintptr_t> vcpu::gva_to_hpa(uint64_t gva); an
\* exception of gva_to_gpa leaves the function
gva_to_hpa(v, mem, guest_cr0, guest_cr3, gva) ==
    LET r == gva_to_gpa(mem, guest_cr0, guest_cr3, gva)
    IN  IF r.threw # "" THEN r
        ELSE IF v.m_mmap = NULL THEN r
        ELSE gpa_to_hpa(v, r.first)

\* void vcpu::map_1g_ro(uintptr_t gpa, uintptr_t hpa) and the eight others
map_gpa(v, fn, gpa, hpa) ==
    IF v.m_mmap = NULL
    THEN [v EXCEPT !.out = RuntimeError("attempted map with EPT not set")]
    ELSE [ v EXCEPT
             !.maps[v.m_mmap] =
                 @ \cup { [ size |-> MapFunctions[fn].size,
                            attr |-> MapFunctions[fn].attr,
                            gpa |-> gpa, hpa |-> hpa ] },
             !.out = Void ]

\* the guest physical addresses mapped and translated, the host frame, and
\* the page tables of the guest: a 4 KiB page at index 1 of every level
EptMapGpas == { {51} }

EptGpas == { {51}, {51, 15, 11, 0}, {13} }

EptHpa == {41}

EptGuestMemory == GuestMemory([level \in 1 .. 4 |-> "table"])

EptGvas == { {39, 30, 21, 12, 11, 0}, {30, 21, 12} }

InitEpt ==
    /\ AtRest("ept")
    /\ call = [fn |-> "vcpu"]
    /\ result = NoEpt

EptStep(request, v) ==
    /\ pc = "ept"
    /\ call' = request
    /\ result' = v
    /\ \A m \in EptMaps : Cardinality(v.maps[m]) <= MaxMappings
    /\ UNCHANGED pc
    /\ StaysAtRest

SetEptp ==
    \E map \in EptMaps :
        EptStep([fn |-> "set_eptp", map |-> map], set_eptp(result, map))

DisableEpt == EptStep([fn |-> "disable_ept"], disable_ept(result))

MapGpa ==
    \E fn \in DOMAIN MapFunctions, gpa \in EptMapGpas :
        EptStep([fn |-> fn, gpa |-> gpa, hpa |-> EptHpa],
                map_gpa(result, fn, gpa, EptHpa))

GpaToHpa ==
    \E gpa \in EptGpas :
        EptStep([fn |-> "gpa_to_hpa", gpa |-> gpa],
                [result EXCEPT !.out = gpa_to_hpa(result, gpa)])

GvaToHpa ==
    \E gva \in EptGvas, guest_cr0 \in GuestCr0s :
        EptStep([fn |-> "gva_to_hpa", gva |-> gva, guest_cr0 |-> guest_cr0],
                [ result EXCEPT
                    !.out = gva_to_hpa(result, EptGuestMemory, guest_cr0,
                                       GuestTables[1], gva) ])

NextEpt ==
    \/ SetEptp
    \/ DisableEpt
    \/ MapGpa
    \/ GpaToHpa
    \/ GvaToHpa

SpecEpt == InitEpt /\ [][NextEpt]_vars

\* ------------------------------------------------- free_mk_debug_ring

\* HYPERVISOR_DEBUG_RING_SIZE (constants.h): fixed at build time
HYPERVISOR_DEBUG_RING_SIZE == 8 * HYPERVISOR_PAGE_SIZE

\* the pointer of the caller, the live allocations, and as history the
\* arguments of every call of platform_free and the rings allocated
NoRing == [debug_ring |-> NULL, heap |-> {}, calls |-> << >>, rings |-> 0]

\* alloc_mk_debug_ring: a ring that was never allocated before
alloc_mk_debug_ring(st) ==
    [ st EXCEPT !.debug_ring = st.rings + 1,
                !.heap = @ \cup { << "mk_debug_ring", st.rings + 1 >> },
                !.rings = @ + 1 ]

\* a plausible slip: the pointer of the caller is left as it was
free_mk_debug_ring_keeps_pointer(st) ==
    [ st EXCEPT
        !.heap = platform_free(@, "mk_debug_ring", st.debug_ring),
        !.calls = Append(@, << st.debug_ring, HYPERVISOR_DEBUG_RING_SIZE >>) ]

\* void free_mk_debug_ring(struct debug_ring_t **const debug_ring)
free_mk_debug_ring(st) ==
    [ st EXCEPT
        !.heap = platform_free(@, "mk_debug_ring", st.debug_ring),
        !.calls = Append(@, << st.debug_ring, HYPERVISOR_DEBUG_RING_SIZE >>),
        !.debug_ring = NULL ]

InitRing ==
    /\ AtRest("ring")
    /\ call = [fn |-> "free_mk_debug_ring"]
    /\ result = NoRing

RingStep(st) ==
    /\ pc = "ring"
    /\ result' = st
    /\ UNCHANGED << pc, call >>
    /\ StaysAtRest

AllocMkDebugRing ==
    /\ result.debug_ring = NULL
    /\ result.rings < MaxRings
    /\ RingStep(alloc_mk_debug_ring(result))

FreeMkDebugRing ==
    /\ Len(result.calls) < MaxFreeCalls
    /\ RingStep(free_mk_debug_ring(result))

NextRing ==
    \/ AllocMkDebugRing
    \/ FreeMkDebugRing

SpecRing == InitRing /\ [][NextRing]_vars

\* ------------------------------------------------------------ properties

Has(ev) == \E i \in DOMAIN log : log[i] = ev

StepOk(step) == Has(Event(step, 0, LOADER_SUCCESS))

StepFailed(step) == Has(Event(step, 0, LOADER_FAILURE))

SomeStepFailed == \E k \in DOMAIN Steps : StepFailed(Steps[k])

\* a start_vmm call has returned and nothing was called since
StartReturned == pc = "idle" /\ op = "start_vmm"

IsFree(e) == \E i \in DOMAIN FreeFns : e[1] = FreeFns[i]

FreeRank(e) == CHOOSE i \in DOMAIN FreeFns : e[1] = FreeFns[i]

FreeCount(i) == Cardinality({ j \in DOMAIN log : log[j][1] = FreeFns[i] })

\* the resources acquired so far by the call in progress
AcquiredCount == Cardinality({ i \in DOMAIN Resources : StepOk(Steps[i]) })

FreeEvents == SelectSeq(log, IsFree)

AllLive ==
    \A r \in ResourceSet : g[r].addr # NULL /\ << r, g[r].addr >> \in heap

NoneLive ==
    /\ \A r \in ResourceSet : g[r] = NullSpan
    /\ \A a \in heap : a[1] \notin ResourceSet

\* C1: when a step of alloc_and_start_the_vmm fails, start returns failure
\* with every resource the earlier steps acquired released exactly once, no
\* other resource released, and the live allocations as they were when the
\* step sequence began.
C1_RollbackReleasesWhatWasAcquired ==
    (StartReturned /\ ret = LOADER_FAILURE /\ SomeStepFailed) =>
        /\ \A i \in DOMAIN Resources :
              FreeCount(i) = IF StepOk(Steps[i]) THEN 1 ELSE 0
        /\ NoneLive
        /\ heap = pre_heap

\* the page pool mapping failed and start has unwound
C1_Witness ==
    /\ StartReturned
    /\ ret = LOADER_FAILURE
    /\ StepFailed("map_mk_page_pool")
    /\ FreeCount(1) = 1
    /\ FreeCount(6) = 1

\* C2: the releases of a failing start happen in the reverse of the
\* acquisition order, after the per-CPU stop when the fan-out was reached:
\* huge pool, page pool, ELF segments, extension ELF files, microkernel ELF
\* file, root page table.
C2_ReleasesInReverseOrder ==
    /\ \A i, j \in DOMAIN log :
          (i < j /\ IsFree(log[i]) /\ IsFree(log[j])) =>
              FreeRank(log[i]) > FreeRank(log[j])
    /\ \A i, j \in DOMAIN log :
          (IsFree(log[i]) /\ log[j][1] = "stop_vmm_per_cpu") => j < i
    /\ (StartReturned /\ ret = LOADER_FAILURE /\ SomeStepFailed) =>
          /\ Len(FreeEvents) = AcquiredCount
          /\ \A i \in DOMAIN FreeEvents :
                FreeRank(FreeEvents[i]) = AcquiredCount + 1 - i

\* the fan-out failed and everything was released, the per-CPU stop first
C2_Witness ==
    /\ StartReturned
    /\ StepFailed("platform_on_each_cpu")
    /\ Len(FreeEvents) = Len(Resources)
    /\ \E j \in DOMAIN log : log[j][1] = "stop_vmm_per_cpu"

\* C3: when the per-CPU start failed and the stop fan-out that rolls it back
\* fails too, the status is Corrupt when start returns.
C3_RollbackFailureCorrupts ==
    (StartReturned /\ Has(Event("platform_on_each_cpu", 1, LOADER_FAILURE))) =>
        g_vmm_status = VMM_STATUS_CORRUPT

\* where the failed forward fan-out ends in the log
FanOutFailedAt == CHOOSE k \in DOMAIN log : log[k] = Event("platform_on_each_cpu", 0, LOADER_FAILURE)

\* C4: when the forward fan-out of start_vmm_per_cpu fails, stop_vmm_per_cpu
\* runs on every CPU from the last to the first before anything is
\* released, start returns failure, and the status is Stopped when every
\* per-CPU stop succeeded.
C4_FailedFanOutIsStoppedInReverse ==
    StepFailed("platform_on_each_cpu") =>
        /\ (Len(log) = FanOutFailedAt) <=> (pc = "stop_vmm_per_cpu")
        /\ Len(log) > FanOutFailedAt =>
              /\ Len(log) > FanOutFailedAt + NumCpus
              /\ \A i \in 1 .. NumCpus :
                    /\ log[FanOutFailedAt + i][1] = "stop_vmm_per_cpu"
                    /\ log[FanOutFailedAt + i][2] = NumCpus - i
              /\ log[FanOutFailedAt + NumCpus + 1][1] = "platform_on_each_cpu"
              /\ log[FanOutFailedAt + NumCpus + 1][2] = 1
        /\ \A i \in 1 .. FanOutFailedAt : ~IsFree(log[i])
        /\ StartReturned =>
              /\ ret = LOADER_FAILURE
              /\ Has(Event("platform_on_each_cpu", 1, LOADER_SUCCESS)) =>
                    /\ g_vmm_status = VMM_STATUS_STOPPED
                    /\ \A c \in Cpus : ~cpu[c]

\* the fan-out failed on the last CPU only and every per-CPU stop succeeded
C4_Witness ==
    /\ StartReturned
    /\ Has(Event("start_vmm_per_cpu", NumCpus - 1, LOADER_FAILURE))
    /\ Has(Event("start_vmm_per_cpu", 0, LOADER_SUCCESS))
    /\ Has(Event("platform_on_each_cpu", 1, LOADER_SUCCESS))
    /\ g_vmm_status = VMM_STATUS_STOPPED

\* a step taken by a start_vmm call
StartStep ==
    /\ op' = "start_vmm"
    /\ ~(UNCHANGED << pc, op, ioctl_args, args, ret, log >>)

\* C5: once the status is Corrupt it stays Corrupt, and every start in that
\* status returns failure without touching the debug ring, the allocations,
\* the mappings or the CPUs.
C5_CorruptIsTerminal ==
    [][ g_vmm_status = VMM_STATUS_CORRUPT =>
          /\ g_vmm_status' = VMM_STATUS_CORRUPT
          /\ StartStep =>
                /\ UNCHANGED << g_mk_debug_ring, g, heap, mapped, cpu >>
                /\ pc' = "idle" => ret' = LOADER_FAILURE ]_vars

\* a start that found the status Corrupt has returned, the ring not empty
C5_Witness ==
    /\ StartReturned
    /\ g_vmm_status = VMM_STATUS_CORRUPT
    /\ ret = LOADER_FAILURE
    /\ StepOk("verify_start_vmm_args")
    /\ ~Has(Event("stop_and_free_the_vmm", 0, LOADER_FAILURE))
    /\ g_mk_debug_ring.epos > 0

\* C6: whenever the status is Running every resource is allocated, every
\* mapping is in place and every CPU was started; a start that returns
\* success completed every step and left the status Running.
C6_RunningMeansFullyStarted ==
    /\ g_vmm_status = VMM_STATUS_RUNNING =>
          /\ AllLive
          /\ mapped = MappingSet
          /\ \A c \in Cpus : cpu[c]
    /\ (StartReturned /\ ret = LOADER_SUCCESS) =>
          /\ g_vmm_status = VMM_STATUS_RUNNING
          /\ \A k \in DOMAIN Steps : StepOk(Steps[k])
          /\ log[Len(log)] = Event("platform_on_each_cpu", 0, LOADER_SUCCESS)

C6_Witness ==
    /\ StartReturned
    /\ ret = LOADER_SUCCESS
    /\ g_vmm_status = VMM_STATUS_RUNNING
    /\ AllLive

\* the state a start from Stopped leaves when every step succeeds
FreshlyStarted(a) ==
    /\ g_vmm_status = VMM_STATUS_RUNNING
    /\ g_mk_debug_ring = [spos |-> 0, epos |-> 0]
    /\ heap = BaseHeap \cup { << r, 1 >> : r \in ResourceSet }
    /\ \A r \in ResourceSet : g[r].addr = 1
    /\ g["mk_elf_file"].size = a.mk_elf_file.size
    /\ g["mk_page_pool"].size = PoolSize(a.page_pool_size, HYPERVISOR_PAGE_POOL_SIZE)
    /\ mapped = MappingSet
    /\ \A c \in Cpus : cpu[c]

\* C7: a start issued while Running stops the VMM before acquiring anything
\* and then starts; when both succeed the state on return is the state a
\* fresh start leaves, with one set of live resources.
C7_RestartEqualsFreshStart ==
    [][ (pc = "set_running" /\ pc' = "idle") =>
          /\ FreshlyStarted(args)'
          /\ \A i \in DOMAIN log :
                log[i][1] = "stop_and_free_the_vmm" =>
                    /\ log[i][3] = LOADER_SUCCESS
                    /\ \A j \in 1 .. (i - 1) :
                          log[j][1] \in {"platform_copy_from_user", "verify_start_vmm_args"} ]_vars

\* a restart has succeeded
C7_Witness ==
    /\ StartReturned
    /\ ret = LOADER_SUCCESS
    /\ StepOk("stop_and_free_the_vmm")
    /\ FreshlyStarted(args)

\* C8: after a successful start followed by a successful stop the status is
\* Stopped and the live allocations are those from before the start.
C8_StartThenStopLeaksNothing ==
    (pc = "idle" /\ op = "stop_vmm" /\ StepOk("stop_and_free_the_vmm")) =>
        /\ ret = LOADER_SUCCESS
        /\ g_vmm_status = VMM_STATUS_STOPPED
        /\ heap = pre_heap
        /\ NoneLive
        /\ mapped = {}

C8_Witness ==
    /\ pc = "idle"
    /\ op = "stop_vmm"
    /\ StepOk("stop_and_free_the_vmm")
    /\ g_vmm_status = VMM_STATUS_STOPPED
    /\ heap = BaseHeap

\* the steps of alloc_and_start_the_vmm in program order, A1 first
StepOrder == << "reset_debug_ring" >> \o Steps

IsStepEvent(e) ==
    /\ \E k \in DOMAIN StepOrder : e[1] = StepOrder[k]
    /\ e[2] = 0

StepEvents == SelectSeq(log, IsStepEvent)

\* C9: start attempts its steps in the order A1..A7, M1..M7, X1, each only
\* after every earlier step succeeded; start_vmm_per_cpu runs on no CPU
\* before every allocation and mapping has completed.
C9_StepsInOrder ==
    /\ Len(StepEvents) <= Len(StepOrder)
    /\ \A i \in DOMAIN StepEvents :
          /\ StepEvents[i][1] = StepOrder[i]
          /\ i < Len(StepEvents) => StepEvents[i][3] = LOADER_SUCCESS
    /\ \A j \in DOMAIN log :
          log[j][1] = "start_vmm_per_cpu" =>
              \A k \in 1 .. (Len(Steps) - 1) :
                  \E i \in 1 .. (j - 1) : log[i] = Event(Steps[k], 0, LOADER_SUCCESS)
    /\ pc = "platform_on_each_cpu" => (AllLive /\ mapped = MappingSet)

\* the fan-out has run after all thirteen earlier steps
C9_Witness ==
    /\ Len(StepEvents) = Len(StepOrder)
    /\ \E j \in DOMAIN log : log[j][1] = "start_vmm_per_cpu"

\* the records the specification of section 4.1 accepts
Accepts(a) ==
    /\ a.ver = 1
    /\ a.mk_elf_file.addr # NULL
    /\ 0 < a.mk_elf_file.size
    /\ a.mk_elf_file.size < HYPERVISOR_MAX_ELF_FILE_SIZE
    /\ a.ext_elf_files[0].addr # NULL
    /\ \A i \in ExtIndexes :
          /\ (a.ext_elf_files[i].addr = NULL) <=> (a.ext_elf_files[i].size = 0)
          /\ a.ext_elf_files[i].size < HYPERVISOR_MAX_ELF_FILE_SIZE

\* C10: verify_start_vmm_args accepts a record exactly when ver is 1, the
\* microkernel file is non-null with 0 < size < MAX_ELF_FILE_SIZE, the first
\* extension is non-null and every extension has a null address exactly when
\* its size is 0 and a size below MAX_ELF_FILE_SIZE.
C10_VerifyAcceptsExactlyValidRecords ==
    pc = "verified" =>
        /\ ret \in {LOADER_SUCCESS, LOADER_FAILURE}
        /\ (ret = LOADER_SUCCESS) <=> Accepts(args)

\* a record with an empty later extension slot was accepted
C10_Witness ==
    /\ pc = "verified"
    /\ ret = LOADER_SUCCESS
    /\ args.ext_elf_files[HYPERVISOR_MAX_EXTENSIONS - 1] = NullSpan

\* the statements of start_vmm between the null check and the dispatch
PreDispatch == { "platform_copy_from_user", "verify_start_vmm_args" }

\* a step of a start_vmm call that has not reached alloc_and_start_the_vmm
PreDispatchStep ==
    \/ pc = "idle" /\ StartStep
    \/ pc \in PreDispatch

\* C11: a start rejected before dispatch (null pointer, copy-from-user
\* fault, failed validation) returns failure and leaves the status, the
\* debug ring cursors, the global spans, the allocations, the mappings and
\* the CPUs as they were; nothing but the copy and the validation is called.
C11_RejectedStartChangesNothing ==
    [][ PreDispatchStep =>
          /\ op' = "start_vmm"
          /\ UNCHANGED << g_vmm_status, g_mk_debug_ring, g, heap, mapped, cpu,
                          pre_heap >>
          /\ pc' = "idle" =>
                /\ ret' = LOADER_FAILURE
                /\ \A i \in DOMAIN log' : log'[i][1] \in PreDispatch ]_vars

\* a record with a bad version was rejected while the VMM runs and the ring
\* is in use
C11_Witness ==
    /\ StartReturned
    /\ ret = LOADER_FAILURE
    /\ log = << Event("platform_copy_from_user", 0, LOADER_SUCCESS),
                Event("verify_start_vmm_args", 0, LOADER_FAILURE) >>
    /\ g_vmm_status = VMM_STATUS_RUNNING
    /\ g_mk_debug_ring.epos > 0
    /\ AllLive
    /\ mapped = MappingSet

\* C12: start_vmm checks the pointer, then copies, then validates, then
\* dispatches: the copy is reached only with a non-null pointer, a call that
\* made no call at all failed, a faulting copy is the last thing a call does,
\* validation follows a successful copy, and everything else follows a
\* successful validation of the copied record.
C12_ChecksInOrder ==
    /\ pc = "platform_copy_from_user" =>
          /\ ioctl_args.kind # "null"
          /\ log = << >>
    /\ pc = "verify_start_vmm_args" =>
          log = << Event("platform_copy_from_user", 0, LOADER_SUCCESS) >>
    /\ (StartReturned /\ log = << >>) => ret = LOADER_FAILURE
    /\ (op = "start_vmm" /\ log # << >>) =>
          log[1][1] = "platform_copy_from_user"
    /\ StepFailed("platform_copy_from_user") =>
          /\ Len(log) = 1
          /\ pc = "idle"
          /\ ret = LOADER_FAILURE
    /\ \A i \in DOMAIN log :
          /\ log[i][1] = "platform_copy_from_user" => i = 1
          /\ log[i][1] = "verify_start_vmm_args" =>
                /\ i = 2
                /\ log[1] = Event("platform_copy_from_user", 0, LOADER_SUCCESS)
          /\ (op = "start_vmm" /\ i > 2) =>
                log[2] = Event("verify_start_vmm_args", 0, LOADER_SUCCESS)
    /\ (op = "start_vmm" /\ pc \notin ({"idle"} \cup PreDispatch)) =>
          /\ Len(log) >= 2
          /\ log[2] = Event("verify_start_vmm_args", 0, LOADER_SUCCESS)
          /\ verify_start_vmm_args(args) = LOADER_SUCCESS

\* the copy faulted and the call returned without validating
C12_Witness ==
    /\ StartReturned
    /\ ret = LOADER_FAILURE
    /\ log = << Event("platform_copy_from_user", 0, LOADER_FAILURE) >>

\* every call start_vmm made succeeded, none missing
EveryStepSucceeded ==
    /\ StepOk("platform_copy_from_user")
    /\ StepOk("verify_start_vmm_args")
    /\ \A k \in DOMAIN Steps : StepOk(Steps[k])
    /\ \A i \in DOMAIN log : log[i][3] = LOADER_SUCCESS

\* C13: start_vmm returns success or failure and nothing else; it returns
\* success exactly when every step of the call succeeded and the status on
\* return is Running.
C13_SuccessIffEveryStepSucceeded ==
    StartReturned =>
        /\ ret \in {LOADER_SUCCESS, LOADER_FAILURE}
        /\ (ret = LOADER_SUCCESS) <=>
              (EveryStepSucceeded /\ g_vmm_status = VMM_STATUS_RUNNING)

\* the status is Running when a start returns failure: a rejected restart
C13_Witness ==
    /\ StartReturned
    /\ ret = LOADER_FAILURE
    /\ g_vmm_status = VMM_STATUS_RUNNING
    /\ ~EveryStepSucceeded

\* the call in progress has copied the record
Copied == op = "start_vmm" /\ pc \notin {"idle", "platform_copy_from_user"}

\* the call in progress acquired resource r and still holds it
Holds(step, r) == StepOk(step) /\ g[r].addr # NULL

\* the values the call in progress uses are those of its own copy
UsesKernelCopy ==
    /\ Cardinality({ i \in DOMAIN log : log[i][1] = "platform_copy_from_user" }) = 1
    /\ \A i \in DOMAIN log :
          log[i][1] = "verify_start_vmm_args" =>
              log[i][3] = verify_start_vmm_args(args)
    /\ Holds("alloc_and_copy_mk_elf_file_from_user", "mk_elf_file") =>
          g["mk_elf_file"].size = args.mk_elf_file.size
    /\ Holds("alloc_and_copy_ext_elf_files_from_user", "ext_elf_files") =>
          g["ext_elf_files"].size = ExtElfFilesTotal(args, 0)
    /\ Holds("alloc_mk_page_pool", "mk_page_pool") =>
          g["mk_page_pool"].size =
              PoolSize(args.page_pool_size, HYPERVISOR_PAGE_POOL_SIZE)

\* C14: start copies the record from user memory exactly once; the values
\* validated and the values used afterwards are those of that copy, which no
\* write of the user to its record changes.
C14_RecordIsCopiedOnce ==
    [][ /\ Copied' => UsesKernelCopy'
        /\ (Copied /\ Copied') => args' = args ]_vars

\* the user replaced its record by one that fails validation after the copy
\* was validated, and the start went through with the values of the copy
C14_Witness ==
    /\ pc = "set_running"
    /\ ioctl_args.kind = "mapped"
    /\ verify_start_vmm_args(ioctl_args.rec) = LOADER_FAILURE
    /\ ioctl_args.rec.page_pool_size # args.page_pool_size
    /\ g["mk_page_pool"].size =
           PoolSize(args.page_pool_size, HYPERVISOR_PAGE_POOL_SIZE)
    /\ g["mk_elf_file"].size # ioctl_args.rec.mk_elf_file.size

\* the call in progress is past the reset of the debug ring
RingWasReset == op = "start_vmm" /\ pc # "idle" /\ StepOk("reset_debug_ring")

\* C15: a start that finds the status not Corrupt after the implicit stop
\* sets both cursors of the debug ring to zero before it allocates anything,
\* and the cursors stay zero through every later step, the rollback
\* included, up to and including the return.
C15_RingIsResetBeforeAllocation ==
    [][ /\ (pc = "check_corrupt" /\ pc' # pc
               /\ g_vmm_status # VMM_STATUS_CORRUPT) =>
              pc' = "reset_debug_ring"
        /\ (pc = "reset_debug_ring" /\ pc' # pc) =>
              /\ g_mk_debug_ring' = [spos |-> 0, epos |-> 0]
              /\ heap' = heap
              /\ \A i \in DOMAIN log : ~IsStepEvent(log[i])
        /\ (\E i \in DOMAIN log' : IsStepEvent(log'[i])) =>
              StepOk("reset_debug_ring")'
        /\ RingWasReset => g_mk_debug_ring' = [spos |-> 0, epos |-> 0] ]_vars

\* a restart over a ring that had been written and read failed at the
\* fan-out, rolled back and returned with the cursors at zero
C15_Witness ==
    /\ StartReturned
    /\ ret = LOADER_FAILURE
    /\ StepOk("stop_and_free_the_vmm")
    /\ StepOk("reset_debug_ring")
    /\ StepFailed("platform_on_each_cpu")
    /\ Len(FreeEvents) = Len(Resources)
    /\ g_mk_debug_ring = [spos |-> 0, epos |-> 0]

\* the size an allocator records when no page count is given
DefaultSize(fn) ==
    IF fn = "alloc_mk_huge_pool" THEN HYPERVISOR_HUGE_POOL_SIZE
    ELSE HYPERVISOR_MK_STACK_SIZE

\* C16: when the platform allocation succeeds, alloc_mk_huge_pool and
\* alloc_mk_stack record N times the page size for every page count N > 0 up
\* to the largest the parameter holds, without wrap-around, and the default
\* size for N = 0; that size is the one requested from the platform and is a
\* positive multiple of the page size.
C16_RecordedSizeIsPagesTimesPageSize ==
    (pc = "allocated" /\ result.ret = LOADER_SUCCESS) =>
        /\ result.span.size =
               IF call.size = 0 THEN DefaultSize(call.fn)
               ELSE call.size * HYPERVISOR_PAGE_SIZE
        /\ result.requested = result.span.size
        /\ result.span.size > 0
        /\ result.span.size % HYPERVISOR_PAGE_SIZE = 0

\* the huge pool was allocated with the largest page count
C16_Witness ==
    /\ pc = "allocated"
    /\ call.fn = "alloc_mk_huge_pool"
    /\ call.size = UINT32_MAX
    /\ result.ret = LOADER_SUCCESS
    /\ result.span.size = UINT32_MAX * HYPERVISOR_PAGE_SIZE

\* C17: after alloc_mk_huge_pool or alloc_mk_stack returns, the span is
\* either set (success: addr non-null, size > 0) or empty (failure: addr and
\* size both zero); a failed platform allocation gives failure and the empty
\* span, whatever the span held before.
C17_SpanInvariantAfterAlloc ==
    pc = "allocated" =>
        /\ result.ret \in {LOADER_SUCCESS, LOADER_FAILURE}
        /\ result.ret = LOADER_SUCCESS =>
              /\ result.span.addr # NULL
              /\ result.span.size > 0
        /\ result.ret = LOADER_FAILURE => result.span = NullSpan
        /\ (result.platform = NULL) <=> (result.ret = LOADER_FAILURE)

\* the stack allocation failed on a span that held something
C17_Witness ==
    /\ pc = "allocated"
    /\ call.fn = "alloc_mk_stack"
    /\ call.size > 0
    /\ call.span # NullSpan
    /\ result.platform = NULL
    /\ result.ret = LOADER_FAILURE
    /\ result.span = NullSpan

\* the index a selector names, and the entry it names in the table of the call
SelectorIndex == call.selector \div 8

SelectedEntry == call.gdtr.base[SelectorIndex]

\* the index is not 0 and the limit covers the entry it names
InRange ==
    /\ SelectorIndex # 0
    /\ SelectorIndex < (call.gdtr.limit + 1) \div 8

\* C18: for a selector of index 0 (the selectors 0 .. 7), with gdtr and the
\* output pointer non-null, get_gdt_descriptor_base and
\* get_gdt_descriptor_attrib return success and write 0, whatever the limit
\* and the contents of the table, and read no entry.
C18_NullSelectorGivesZero ==
    (pc = "gdt_done" /\ SelectorIndex = 0 /\ ~call.gdtr.null /\ ~call.out_null) =>
        /\ result.ret = LOADER_SUCCESS
        /\ result.written
        /\ result.out = {}
        /\ result.reads = {}

\* selector 7 on a table whose limit covers no entry and whose words are all
\* ones: the attributes are 0
C18_Witness ==
    /\ pc = "gdt_done"
    /\ call.fn = "get_gdt_descriptor_attrib"
    /\ call.selector = 7
    /\ ~call.gdtr.null
    /\ call.gdtr.limit = 0
    /\ call.gdtr.base[0] = Bits(0, 63)
    /\ result.ret = LOADER_SUCCESS
    /\ result.out = {}

\* C19: with gdtr null, with the output pointer null, or with an index other
\* than 0 that is >= (limit + 1) / 8, both functions return failure; a call
\* that fails leaves the output location as it was; and every entry read
\* lies within the limit.
C19_FailuresLeaveOutputUnwritten ==
    pc = "gdt_done" =>
        /\ (call.gdtr.null \/ call.out_null
               \/ (SelectorIndex # 0 /\ ~InRange)) =>
              result.ret = LOADER_FAILURE
        /\ result.ret = LOADER_FAILURE =>
              /\ ~result.written
              /\ result.out = OldOutput
        /\ \A i \in result.reads : (8 * i) + 7 <= call.gdtr.limit

\* the limit ends inside the entry the selector names: failure, nothing
\* read, nothing written
C19_Witness ==
    /\ pc = "gdt_done"
    /\ call.fn = "get_gdt_descriptor_base"
    /\ ~call.gdtr.null
    /\ ~call.out_null
    /\ SelectorIndex = GdtEntries - 1
    /\ call.gdtr.limit = (8 * GdtEntries) - 5
    /\ result.ret = LOADER_FAILURE
    /\ ~result.written
    /\ result.reads = {}

\* a 32-bit base in the layout of an 8-byte descriptor: bits 0 .. 15 at
\* 16 .. 31, bits 16 .. 23 at 32 .. 39, bits 24 .. 31 at 56 .. 63
EncodeBase(B) ==
    { b + 16 : b \in B \cap Bits(0, 15) }
        \cup { b + 16 : b \in B \cap Bits(16, 23) }
        \cup { b + 32 : b \in B \cap Bits(24, 31) }

\* the bits of an 8-byte descriptor that hold the base
BaseField == Bits(16, 39) \cup Bits(56, 63)

\* 0x00000000FFFFAB00
ExampleBase == {8, 9, 11, 13, 15} \cup Bits(16, 31)

\* the bases tried: none, every bit, the example, each part, all but each part
SampleBases ==
    { {}, Bits(0, 31), ExampleBase, Bits(0, 15), Bits(16, 23), Bits(24, 31),
      Bits(16, 31), Bits(0, 15) \cup Bits(24, 31), Bits(0, 23) }

\* C20: for an in-range selector of index other than 0 whose entry has the
\* System bit set and holds the 32-bit base B in the 8-byte layout,
\* get_gdt_descriptor_base returns success and writes exactly B, whatever
\* the other bits of the entry.
C20_BaseRoundTrip ==
    (pc = "gdt_done" /\ call.fn = "get_gdt_descriptor_base"
        /\ ~call.gdtr.null /\ ~call.out_null /\ InRange
        /\ And(SelectedEntry, SYSTEM_BIT) # {}) =>
        \A B \in SampleBases :
            And(SelectedEntry, BaseField) = EncodeBase(B) =>
                /\ result.ret = LOADER_SUCCESS
                /\ result.written
                /\ result.out = B
                /\ result.reads = {SelectorIndex}

\* the bases of the example descriptor and of a descriptor whose limit and
\* attribute bits are all ones come back
C20_Witness ==
    /\ pc = "gdt_done"
    /\ call.fn = "get_gdt_descriptor_base"
    /\ ~call.gdtr.null
    /\ ~call.out_null
    /\ InRange
    /\ result.ret = LOADER_SUCCESS
    /\ \/ SelectedEntry = ExampleDescriptor /\ result.out = ExampleBase
       \/ /\ SelectedEntry = Bits(0, 63) \ Bits(32, 39)
          /\ result.out = Bits(0, 15) \cup Bits(24, 31)

\* the entry after the selected one
NextEntry == call.gdtr.base[SelectorIndex + 1]

\* the limit covers the whole entry at index i
WithinLimit(i) == (8 * i) + 7 <= call.gdtr.limit

\* C21: for a descriptor with the System bit clear at an index i other than
\* 0, whenever the entries i and i + 1 both lie within the limit,
\* get_gdt_descriptor_base returns success and writes the base whose low 32
\* bits are those of entry i and whose bits 32 .. 63 are the low 32 bits of
\* entry i + 1.
C21_SystemDescriptorBase ==
    (pc = "gdt_done" /\ call.fn = "get_gdt_descriptor_base"
        /\ ~call.gdtr.null /\ ~call.out_null
        /\ SelectorIndex # 0
        /\ WithinLimit(SelectorIndex) /\ WithinLimit(SelectorIndex + 1)
        /\ And(SelectedEntry, SYSTEM_BIT) = {}) =>
        /\ result.ret = LOADER_SUCCESS
        /\ result.out =
               Or(Or(Or(Shr(And(SelectedEntry, Bits(16, 31)), 16),
                        Shr(And(SelectedEntry, Bits(32, 39)), 16)),
                     Shr(And(SelectedEntry, Bits(56, 63)), 32)),
                  Shl(And(NextEntry, Bits(0, 31)), 32))

\* a system descriptor whose second word is not the last entry is read
C21_SystemDescriptorInside ==
    /\ pc = "gdt_done"
    /\ call.fn = "get_gdt_descriptor_base"
    /\ SelectorIndex # 0
    /\ WithinLimit(SelectorIndex + 2)
    /\ SelectedEntry = Bits(16, 31)
    /\ NextEntry = Bits(0, 63)
    /\ result.ret = LOADER_SUCCESS
    /\ result.out = Bits(0, 15) \cup Bits(32, 63)

\* a 16-bit attribute value in the layout of a descriptor: bits 0 .. 7 at
\* 40 .. 47, bits 12 .. 15 at 52 .. 55
EncodeAttrib(A) == { b + 40 : b \in A \cap (Bits(0, 7) \cup Bits(12, 15)) }

\* the bits of a descriptor that hold the attributes
AttribField == Bits(40, 47) \cup Bits(52, 55)

\* the attribute values tried, bits 8 .. 11 clear in each
SampleAttribs ==
    { {}, Bits(0, 7) \cup Bits(12, 15), Bits(0, 3), {4}, Bits(5, 7),
      Bits(12, 15), Bits(0, 7), Bits(4, 7) \cup Bits(12, 15),
      Bits(0, 3) \cup Bits(5, 7) \cup Bits(12, 15),
      Bits(0, 4) \cup Bits(12, 15), {4} \cup Bits(12, 15) }

\* C22: for an in-range selector of index other than 0,
\* get_gdt_descriptor_attrib returns success and writes the 16-bit value
\* whose bits 0 .. 7 are entry bits 40 .. 47, whose bits 12 .. 15 are entry
\* bits 52 .. 55 and whose bits 8 .. 11 are zero; an entry built from an
\* attribute value A gives A back, whatever its base and limit bits.
C22_AttribRoundTrip ==
    (pc = "gdt_done" /\ call.fn = "get_gdt_descriptor_attrib"
        /\ ~call.gdtr.null /\ ~call.out_null /\ InRange) =>
        /\ result.ret = LOADER_SUCCESS
        /\ result.written
        /\ result.reads = {SelectorIndex}
        /\ result.out \cap Bits(0, 7) =
               { b - 40 : b \in SelectedEntry \cap Bits(40, 47) }
        /\ result.out \cap Bits(12, 15) =
               { b - 40 : b \in SelectedEntry \cap Bits(52, 55) }
        /\ result.out \subseteq (Bits(0, 7) \cup Bits(12, 15))
        /\ \A A \in SampleAttribs :
              And(SelectedEntry, AttribField) = EncodeAttrib(A) =>
                  result.out = A

\* the attributes of an entry whose base and limit bits are all ones and
\* whose attribute bits 52 .. 55 are clear
C22_Witness ==
    /\ pc = "gdt_done"
    /\ call.fn = "get_gdt_descriptor_attrib"
    /\ ~call.gdtr.null
    /\ ~call.out_null
    /\ InRange
    /\ SelectedEntry = Bits(0, 63) \ Bits(52, 55)
    /\ result.ret = LOADER_SUCCESS
    /\ result.out = Bits(0, 7)

\* the field of pte_t each accessor of page_table_entry_x64 stands for
AccessorField ==
    [ present |-> "p", rw |-> "rw", us |-> "us", pwt |-> "pwt", pcd |-> "pcd",
      accessed |-> "a", dirty |-> "d", ps |-> "pat", pat |-> "pat",
      global |-> "g", nx |-> "nx" ]

\* the positions the fields of pte_t are said to have
StatedPteLayout ==
    [ p |-> 0 .. 0, rw |-> 1 .. 1, us |-> 2 .. 2, pwt |-> 3 .. 3,
      pcd |-> 4 .. 4, a |-> 5 .. 5, d |-> 6 .. 6, pat |-> 7 .. 7, g |-> 8 .. 8,
      avl |-> 9 .. 11, phys |-> 12 .. 51, auto_release |-> 52 .. 58,
      mpk |-> 59 .. 62, nx |-> 63 .. 63 ]

\* C23: the fields of pte_t lie at p 0, rw 1, us 2, pwt 3, pcd 4, a 5, d 6,
\* pat 7, g 8, avl 9..11, phys 12..51, auto_release 52..58, mpk 59..62 and
\* nx 63, pairwise disjoint and covering the 64 bits; on every entry the
\* accessors of page_table_entry_x64 read what the fields of the same name
\* hold, the physical address being the phys field shifted left by 12.
C23_PteLayoutAgrees ==
    /\ DOMAIN StatedPteLayout = PteFields
    /\ \A f \in PteFields : PteRange(f) = StatedPteLayout[f]
    /\ \A f1, f2 \in PteFields :
          f1 # f2 => PteRange(f1) \cap PteRange(f2) = {}
    /\ UNION { PteRange(f) : f \in PteFields } = Bits(0, 63)
    /\ pc \in {"pte", "pte_done"} =>
          /\ \A a \in BitAccessors :
                get_accessor(result.pte, a)
                    <=> (pte_t_read(result.pte, AccessorField[a]) = {0})
          /\ phys_addr(result.pte) = Shl(pte_t_read(result.pte, "phys"), 12)
          /\ result.pte =
                 UNION { { b + PteOffset(f) : b \in pte_t_read(result.pte, f) } :
                         f \in PteFields }

\* an entry holding every frame bit is made non-executable through the
\* accessor, and the nx field and the phys field read it back
C23_Witness ==
    /\ pc = "pte_done"
    /\ result.pte = Bits(12, 51) \cup {63}
    /\ get_accessor(result.pte, "nx")
    /\ pte_t_read(result.pte, "nx") = {0}
    /\ ~get_accessor(result.pte, "present")
    /\ phys_addr(result.pte) = Bits(12, 51)
    /\ pte_t_read(result.pte, "phys") = Bits(0, 39)

\* the control fields write_control_state sets from the capability MSRs
SetControls == {"pin", "proc", "exit", "entry"}

\* the features write_control_state turns on only when allowed
OptionalRequests ==
    { ControlRequests[n] : n \in { k \in DOMAIN ControlRequests :
                                      ControlRequests[k].if_allowed } }

\* C24: the value first written to the pin-based, primary processor-based,
\* VM-exit and VM-entry controls is the low half of the capability MSR ANDed
\* with its high half, so each of its bits is set in both halves; after the
\* features are enabled, the bit of an optional feature (activate secondary
\* controls, RDTSCP, INVPCID, XSAVES/XRSTORS, load perf-global-ctrl) is set
\* only if the high half of its capability MSR allows it, and RDTSCP, INVPCID
\* and XSAVES/XRSTORS are set only on a host vCPU.
C24_ControlsWithinCapabilities ==
    pc = "vcpu" =>
        \A id \in VcpuIds :
            LET v == result.vcpu[id] IN
            /\ v.pc = "controls" =>
                  \A f \in SetControls :
                      /\ v[f] = MsrLow(call.msrs[f]) \cap MsrHigh(call.msrs[f])
                      /\ \A b \in v[f] :
                            b \in call.msrs[f] /\ (b + 32) \in call.msrs[f]
            /\ v.pc = "done" =>
                  \A req \in OptionalRequests :
                      req.bit \in v[req.field] =>
                          /\ (req.bit + 32) \in call.msrs[req.field]
                          /\ req.host_only => is_host_vcpu(id)

\* a guest vCPU and a host vCPU are constructed on a machine that allows
\* every feature: the host vCPU has RDTSCP, INVPCID and XSAVES/XRSTORS, the
\* guest vCPU has none of them, and both activate the secondary controls
C24_Witness ==
    /\ pc = "vcpu"
    /\ call.msrs = [f \in ControlFields |-> Bits(32, 63)]
    /\ \A id \in VcpuIds : result.vcpu[id].pc = "done"
    /\ result.vcpu[0].proc2 = {3, 12, 20}
    /\ result.vcpu[65536].proc2 = {}
    /\ \A id \in VcpuIds :
          /\ 31 \in result.vcpu[id].proc
          /\ 12 \in result.vcpu[id].exit
          /\ 13 \in result.vcpu[id].entry

\* the host state of the vCPU id has been written
HostStateWritten(id) == result.vcpu[id].pc \in {"host", "controls", "done"}

\* C25: once the host state of a vCPU is written, its host CR0 has PE, MP,
\* NE, WP and PG, its host EFER has LME, LMA and NXE, its host CR4 has PAE,
\* PGE, OSFXSR, OSXMMEXCPT and VMXE, and CR4.OSXSAVE, CR4.SMEP and CR4.SMAP
\* are set exactly when CPUID reports XSAVE, SMEP and SMAP.
C25_HostControlRegisters ==
    pc = "vcpu" =>
        \A id \in VcpuIds :
            HostStateWritten(id) =>
                LET v == result.vcpu[id] IN
                /\ Mask({"protection_enable", "monitor_coprocessor",
                         "numeric_error", "write_protect", "paging"})
                       \subseteq v.host_cr0
                /\ Mask({"lme", "lma", "nxe"}) \subseteq v.host_ia32_efer
                /\ Mask({"physical_address_extensions", "page_global_enable",
                         "osfxsr", "osxmmexcpt", "vmx_enable_bit"})
                       \subseteq v.host_cr4
                /\ RegisterBit.osxsave \in v.host_cr4 <=> call.cpuid.xsave
                /\ RegisterBit.smep_enable_bit \in v.host_cr4 <=> call.cpuid.smep
                /\ RegisterBit.smap_enable_bit \in v.host_cr4 <=> call.cpuid.smap

\* the second vCPU writes its host state after the first one ran setup, on a
\* machine with SMEP but without XSAVE and SMAP
C25_Witness ==
    /\ pc = "vcpu"
    /\ call.cpuid = [xsave |-> FALSE, smep |-> TRUE, smap |-> FALSE]
    /\ \A id \in VcpuIds : HostStateWritten(id)
    /\ \A id \in VcpuIds :
          /\ result.vcpu[id].host_cr0 = {0, 1, 4, 5, 16, 31}
          /\ result.vcpu[id].host_ia32_efer = {8, 10, 11}
          /\ result.vcpu[id].host_cr4 = (0 .. 10) \cup {13, 20}

\* the leaf entry of V is reached through present entries and is present
IsMapped(tables, V) ==
    LET w == Walk(tables, 0, V)
    IN  Len(w) = 4 /\ \A i \in 1 .. 4 : IsPresent(w[i])

\* what alloc_pt does in a step from the tables t to the tables u
AllocPtStep(t, u, l) ==
    LET idx == RptIndex(l.virt, 3) IN
    IF IsPresent(t[l.pdt].e[idx])
    THEN l.ret = NoTable /\ u = t
    ELSE /\ l.ret.ok
         /\ l.ret.page \notin DOMAIN t
         /\ DOMAIN u = DOMAIN t \cup {l.ret.page}
         /\ u[l.ret.page] = ZeroTable(4)
         /\ IsPresent(u[l.pdt].e[idx])
         /\ FrameNumber(pte_t_read(u[l.pdt].e[idx], "phys")) = l.ret.page
         /\ \A f \in DOMAIN t, i \in RptIndexes :
               (f # l.pdt \/ i # idx) => u[f].e[i] = t[f].e[i]

\* C26: alloc_pt(pdt, virt) allocates a page table and installs it in the
\* entry of the pdt selected by virt only when that entry is not present;
\* when a page table is already there it returns null and leaves the pdt
\* and every other table unchanged; map of a virtual address whose leaf
\* entry is present fails and leaves every table unchanged.
C26_NoDoubleAllocation ==
    [][ pc = "rpt" =>
          /\ result'.last.fn = "alloc_pt" =>
                AllocPtStep(result.tables, result'.tables, result'.last)
          /\ /\ result'.last.fn = "map"
             /\ IsMapped(result.tables, result'.last.virt)
             => /\ ~result'.last.ok
                /\ result'.tables = result.tables
                /\ result'.intended = result.intended ]_vars

\* page 0 is mapped, alloc_pt has added to its page directory a second page
\* table that holds no mapping yet, and another alloc_pt for the same entry
\* has returned null
C26_Witness ==
    /\ pc = "rpt"
    /\ result.last.fn = "alloc_pt"
    /\ result.last.virt = {21, 39}
    /\ result.last.ret = NoTable
    /\ IsMapped(result.tables, {})
    /\ ~IsMapped(result.tables, {21, 39})
    /\ LET e == result.tables[result.last.pdt].e[RptIndex({21, 39}, 3)]
       IN  /\ IsPresent(e)
           /\ result.tables[FrameNumber(pte_t_read(e, "phys"))] = ZeroTable(4)

\* the leaf entry e holds the frame and the mode of the request
LeafMatches(e, req) ==
    /\ Shl(pte_t_read(e, "phys"), 12) = req.phys
    /\ req.attr = "RW" => pte_t_read(e, "rw") = {0} /\ pte_t_read(e, "nx") = {0}
    /\ req.attr = "RX" => pte_t_read(e, "rw") = {} /\ pte_t_read(e, "nx") = {}

\* C27: after any sequence of map operations, walking from the PML4 through
\* the indices (V>>39)&0x1FF, (V>>30)&0x1FF, (V>>21)&0x1FF, (V>>12)&0x1FF of
\* a virtual address V mapped with success finds a present entry at every
\* level and a leaf whose phys<<12 is the intended frame and whose attribute
\* bits match the requested mode; and no operation changes the leaf entry of
\* an address that is already mapped.
C27_WalkFindsTheFrame ==
    /\ [](pc = "rpt" =>
            \A V \in VirtAddrs :
                result.intended[V] # NotMapped =>
                    /\ IsMapped(result.tables, V)
                    /\ LeafMatches(Walk(result.tables, 0, V)[4],
                                   result.intended[V]))
    /\ [][ pc = "rpt" =>
             \A V \in VirtAddrs :
                 IsMapped(result.tables, V) =>
                     /\ IsMapped(result'.tables, V)
                     /\ Walk(result'.tables, 0, V)[4]
                            = Walk(result.tables, 0, V)[4] ]_vars

\* the three addresses are mapped, page 0 and the page under another PML4
\* entry to the highest frame, the page next to page 0 to the lowest
C27_Witness ==
    /\ pc = "rpt"
    /\ result.last = [fn |-> "map", virt |-> {21, 39}, ok |-> TRUE]
    /\ result.intended =
           [ V \in VirtAddrs |->
               IF V \in { {}, {21, 39} }
               THEN [phys |-> Bits(12, 51), attr |-> "RX"]
               ELSE [phys |-> {12}, attr |-> "RW"] ]
    /\ \A V \in VirtAddrs : IsMapped(result.tables, V)

\* the number of times the record o is linked on the stack
Occurrences(stack, o) == Cardinality({ i \in DOMAIN stack : stack[i] = o })

\* the records of the object stack
ObjectRecords(oa) == 1 .. Len(oa.addr)

\* C28: every object_t record is at all times on exactly one of the free
\* stack and the used stack; allocate moves one record from the free stack
\* to the top of the used stack, deallocate moves the top record of the used
\* stack to the top of the free stack; and as long as every deallocate was
\* given a held address, the number of records on the used stack is the
\* number of addresses held.
C28_RecordsOnOneStack ==
    /\ [](pc = "oa" =>
            /\ \A o \in ObjectRecords(result.oa) :
                  Occurrences(result.oa.free, o)
                      + Occurrences(result.oa.used, o) = 1
            /\ result.matching =>
                  Len(result.oa.used) = Cardinality(result.held))
    /\ [][ pc = "oa" =>
             LET old == result.oa
                 new == result'.oa
                 made == ObjectRecords(new) \ ObjectRecords(old)
             IN  /\ result'.last.fn = "allocate" =>
                       \E o \in Range(old.free) \cup made :
                           /\ new.used = << o >> \o old.used
                           /\ Range(new.free)
                                  = (Range(old.free) \cup made) \ {o}
                 /\ result'.last.fn = "deallocate" =>
                       \E o \in Range(old.used) \cup made :
                           /\ new.free = << o >> \o old.free
                           /\ Range(new.used) = (Range(old.used) \cup made) \ {o}
                           /\ Len(new.used)
                                  = Len(old.used) + Cardinality(made) - 1
       ]_vars

\* three objects of half a page are allocated from two pages and one of them
\* is given back: two records are on the used stack, two on the free stack
C28_Witness ==
    /\ pc = "oa"
    /\ result.matching
    /\ result.oa.m_size * 2 = BAREFLANK_PAGE_SIZE
    /\ result.last.fn = "deallocate"
    /\ Len(result.oa.pages) = 2
    /\ Cardinality(result.held) = 2
    /\ Len(result.oa.used) = 2
    /\ Len(result.oa.free) = 2

\* the addresses of the objects a page at address page is split into
ObjectsOf(page, size) ==
    { page + k * size : k \in 0 .. ((BAREFLANK_PAGE_SIZE \div size) - 1) }

C30_OutOfRangeIndexThrows ==
    pc = "vector" /\ result.last.fn # "none" =>
        LET l == result.last IN
        /\ (l.index < 0 \/ l.index >= Len(l.before)) => l.threw
        /\ l.threw => result.v = l.before /\ Len(result.v) = Len(l.before)

\* after an element was taken from a vector of three, remove is called with
\* the index 2, which is now the size: it throws and the two elements stay
C30_Witness ==
    /\ pc = "vector"
    /\ result.last.fn = "remove"
    /\ result.last.index = 2
    /\ result.last.threw
    /\ result.last.before = << 1, 3 >>
    /\ result.v = << 1, 3 >>

\* the vector v without the element at position i, counted from 0
Without(v, i) == SubSeq(v, 1, i) \o SubSeq(v, i + 2, Len(v))

\* C31: for an index i with 0 <= i < size(v), find and cfind return the
\* position of v[i] and leave v as it was; take returns the old v[i]; after
\* take and after remove the vector is one shorter and holds the old elements
\* other than the one at position i, in their order.
C31_InRangeIndexFindsAndRemoves ==
    pc = "vector" /\ result.last.fn # "none" =>
        LET l == result.last IN
        (0 <= l.index /\ l.index < Len(l.before)) =>
            /\ ~l.threw
            /\ l.fn \in {"find", "cfind"} =>
                  /\ l.ret = l.index
                  /\ result.v = l.before
                  /\ result.v[l.ret + 1] = l.before[l.index + 1]
            /\ l.fn = "take" => l.ret = l.before[l.index + 1]
            /\ l.fn \in {"take", "remove"} =>
                  /\ Len(result.v) = Len(l.before) - 1
                  /\ result.v = Without(l.before, l.index)

\* the middle element is taken from a vector of three
C31_Witness ==
    /\ pc = "vector"
    /\ result.last.fn = "take"
    /\ result.last.index = 1
    /\ result.last.before = << 1, 2, 3 >>
    /\ result.last.ret = 2
    /\ ~result.last.threw
    /\ result.v = << 1, 3 >>

\* C32: in the captured guest state a segment register whose selector index
\* is 0 has limit 0, base 0 and the access rights unusable, except that TR
\* has the access rights tss_busy | 0x80; a register with another index has
\* the limit, the access rights and the base of the descriptor of the running
\* OS at that index; the bases of FS and GS are always those of the
\* IA32_FS_BASE and IA32_GS_BASE MSRs.
C32_GuestSegmentsFromGdt ==
    pc = "guest_written" =>
        \A r \in SegmentRegisters :
            LET f == result.guest[r]
                index == call.selector[r] \div 8
            IN  /\ f.selector = call.selector[r]
                /\ r = "fs" => f.base = call.msrs.fs
                /\ r = "gs" => f.base = call.msrs.gs
                /\ index = 0 =>
                      /\ f.limit = 0
                      /\ r \notin {"fs", "gs"} => f.base = 0
                      /\ r # "tr" => f.access_rights = 65536
                      /\ r = "tr" => f.access_rights = 139
                /\ index # 0 =>
                      /\ f.limit = GuestGdt[index].limit
                      /\ f.access_rights = GuestGdt[index].access_rights
                      /\ r \notin {"fs", "gs"} => f.base = GuestGdt[index].base

\* TR and ES hold index 0, ES with a privilege level in its selector, and the
\* other registers hold index 2
C32_Witness ==
    /\ pc = "guest_written"
    /\ call.selector =
           [ r \in SegmentRegisters |->
               IF r = "tr" THEN 0 ELSE IF r = "es" THEN 3 ELSE 19 ]
    /\ call.msrs = [fs |-> 0, gs |-> 20003]
    /\ result.guest["tr"].access_rights = 139
    /\ result.guest["es"].access_rights = 65536
    /\ result.guest["es"].base = 0
    /\ result.guest["cs"].base = 20003
    /\ result.guest["fs"].base = 0
    /\ result.guest["fs"].limit = 2001

\* C33: as long as every deallocate was given a held address, allocate does
\* not return an address that is held, the addresses on the free stack are
\* distinct and none of them is held, and an allocate that follows a
\* deallocate returns the address that deallocate was given.
C33_NoAddressHandedOutTwice ==
    /\ [](pc = "oa" /\ result.matching =>
            LET oa == result.oa IN
            /\ \A i, j \in DOMAIN oa.free :
                  i # j => oa.addr[oa.free[i]] # oa.addr[oa.free[j]]
            /\ \A i \in DOMAIN oa.free : oa.addr[oa.free[i]] \notin result.held)
    /\ [][ pc = "oa" /\ result'.matching /\ result'.last.fn = "allocate" =>
             /\ result'.last.ptr \notin result.held
             /\ result.last.fn = "deallocate" =>
                   result'.last.ptr = result.last.ptr ]_vars

\* two objects of half a page are held, the upper one was given back and has
\* been allocated again
C33_Witness ==
    /\ pc = "oa"
    /\ result.matching
    /\ result.oa.m_size * 2 = BAREFLANK_PAGE_SIZE
    /\ Len(result.oa.pages) = 1
    /\ result.oa.free = << >>
    /\ result.oa.used = << 1, 2 >>
    /\ result.held
           = { BAREFLANK_PAGE_SIZE, BAREFLANK_PAGE_SIZE + result.oa.m_size }
    /\ result.last =
           [fn |-> "allocate", ptr |-> BAREFLANK_PAGE_SIZE + result.oa.m_size]

\* the call has made the implicit stop of a running VMM
ImplicitStopMade == \E i \in DOMAIN log : log[i][1] = "stop_and_free_the_vmm"

\* C34: a start stops a running VMM only after the copy and the validation
\* of its request have succeeded; while the status is Running, a step of a
\* start that has not passed validation leaves the status Running and
\* releases nothing: the CPUs, the allocations, the global spans and the
\* mappings of the running VMM stay as they are.
C34_ValidationPrecedesImplicitStop ==
    /\ [](op = "start_vmm" /\ ImplicitStopMade =>
            /\ StepOk("platform_copy_from_user")
            /\ StepOk("verify_start_vmm_args"))
    /\ [][ g_vmm_status = VMM_STATUS_RUNNING /\ PreDispatchStep =>
             /\ g_vmm_status' = VMM_STATUS_RUNNING
             /\ UNCHANGED << cpu, heap, g, mapped >>
             /\ ~ImplicitStopMade' ]_vars

\* the copy of the request faulted while the VMM runs on every CPU
C34_Witness ==
    /\ StartReturned
    /\ ret = LOADER_FAILURE
    /\ log = << Event("platform_copy_from_user", 0, LOADER_FAILURE) >>
    /\ g_vmm_status = VMM_STATUS_RUNNING
    /\ \A c \in Cpus : cpu[c]
    /\ AllLive
    /\ mapped = MappingSet

\* C35: when a start made its implicit stop with success and a later step
\* failed, it returns failure with the status Stopped, no resource of the old
\* or of the new VMM allocated or mapped, and the allocations as they were
\* after the stop, which is the state a start begins from; a start never
\* returns failure with the status Running after an implicit stop; and when
\* the implicit stop failed, the start returns failure with the status
\* Corrupt and the stop is the last thing it did.
C35_FailedRestartIsNotRolledBack ==
    (StartReturned /\ ImplicitStopMade) =>
        /\ ret = LOADER_FAILURE => g_vmm_status # VMM_STATUS_RUNNING
        /\ (StepOk("stop_and_free_the_vmm") /\ ret = LOADER_FAILURE) =>
              /\ g_vmm_status = VMM_STATUS_STOPPED
              /\ NoneLive
              /\ heap = pre_heap
              /\ mapped = {}
        /\ ~StepOk("stop_and_free_the_vmm") =>
              /\ ret = LOADER_FAILURE
              /\ g_vmm_status = VMM_STATUS_CORRUPT
              /\ log[Len(log)]
                     = Event("stop_and_free_the_vmm", 0, LOADER_FAILURE)

\* a restart stopped the old VMM, failed at a later step and returned
C35_Witness ==
    /\ StartReturned
    /\ ret = LOADER_FAILURE
    /\ StepOk("stop_and_free_the_vmm")
    /\ SomeStepFailed
    /\ g_vmm_status = VMM_STATUS_STOPPED
    /\ NoneLive
    /\ mapped = {}

\* the host values of the VMCS of the vCPU id
HostValues(id) ==
    LET v == result.vcpu[id]
    IN  << v.host_cr0, v.host_cr3, v.host_cr4, v.host_ia32_efer,
           v.host_ia32_pat >>

\* the shared host values
SharedValues ==
    LET glob == result.glob
    IN  << glob.cr0, glob.cr3, glob.cr4, glob.efer, glob.pat >>

\* C36: setup runs at most once, whatever the order in which the vCPUs are
\* constructed; it has run before a vCPU gets past call_once, so before any
\* host state is written; each memory descriptor of the VMM is mapped by it
\* once; after it has run the shared values never change, and every vCPU
\* whose host state is written holds the same host CR0, CR3, CR4, EFER and
\* PAT, those of setup.
C36_SetupRunsOnce ==
    /\ [](pc = "vcpu" =>
            /\ result.glob.setups <= 1
            /\ result.glob.once <=> result.glob.setups = 1
            /\ result.glob.maps
                   = IF result.glob.once THEN map_descriptors ELSE {}
            /\ \A id \in VcpuIds :
                  /\ result.vcpu[id].pc # "new" => result.glob.setups = 1
                  /\ HostStateWritten(id) => HostValues(id) = SharedValues
            /\ \A id1, id2 \in VcpuIds :
                  HostStateWritten(id1) /\ HostStateWritten(id2) =>
                      HostValues(id1) = HostValues(id2))
    /\ [][ pc = "vcpu" /\ result.glob.once => result'.glob = result.glob ]_vars

\* the guest vCPU was constructed first and ran setup; the host vCPU, made
\* later, has written the same host values
C36_Witness ==
    /\ pc = "vcpu"
    /\ result.glob.setups = 1
    /\ result.vcpu[65536].pc = "done"
    /\ result.vcpu[0].pc = "host"
    /\ HostValues(0) = HostValues(65536)
    /\ result.vcpu[0].host_cr3 = g_cr3.cr3
    /\ result.vcpu[0].host_ia32_pat = g_cr3.pat
    /\ Cardinality(result.glob.maps) = 2

\* the bit positions at which two entries differ
ChangedBits(w1, w2) == (w1 \ w2) \cup (w2 \ w1)

\* the accessors that read another bit than the accessor a
OtherAccessors(a) == { b \in BitAccessors : AccessorBit[b] # AccessorBit[a] }

\* C37: after set_X(b) the getter X() returns b, every other getter and
\* phys_addr() return what they returned before, and at most one bit of the
\* entry has changed; set_ps(b) makes pat() return b and set_pat(b) makes
\* ps() return b; after set_phys_addr(addr) only bits 12..51 may differ,
\* phys_addr() returns those bits of addr and every getter returns what it
\* returned before.
C37_SettersChangeOnlyTheirBits ==
    (pc = "pte_done" /\ result.last.fn \in {"set_accessor", "set_phys_addr"}) =>
        LET last == result.last
            before == last.before
            after == result.pte
        IN  /\ last.fn = "set_accessor" =>
                  /\ get_accessor(after, last.a) = last.enabled
                  /\ \A b \in OtherAccessors(last.a) :
                        get_accessor(after, b) = get_accessor(before, b)
                  /\ phys_addr(after) = phys_addr(before)
                  /\ Cardinality(ChangedBits(before, after)) <= 1
                  /\ \A n \in ChangedBits(before, after) :
                        (n \in after) = last.enabled
                  /\ last.a = "ps" => get_accessor(after, "pat") = last.enabled
                  /\ last.a = "pat" => get_accessor(after, "ps") = last.enabled
            /\ last.fn = "set_phys_addr" =>
                  /\ ChangedBits(before, after) \subseteq 12..51
                  /\ phys_addr(after) = last.addr \cap (12..51)
                  /\ \A b \in BitAccessors :
                        get_accessor(after, b) = get_accessor(before, b)

\* set_ps(false) on the entry with every bit set clears bit 7 alone, and
\* pat() then returns false
C37_Witness ==
    /\ pc = "pte_done"
    /\ result.last = [ fn |-> "set_accessor", a |-> "ps", enabled |-> FALSE,
                       before |-> Bits(0, 63) ]
    /\ result.pte = Bits(0, 63) \ {7}
    /\ ~get_accessor(result.pte, "pat")
    /\ get_accessor(result.pte, "global")

\* the entry that the walk for call.gva reads at a level: in the table that
\* guest CR3 names at the first level, and at each further level in the table
\* that the entry of the level before names in its bits 12..51
RECURSIVE WalkEntry(_)
WalkEntry(level) ==
    LET table == IF level = 1 THEN call.guest_cr3 \ (0 .. 11)
                 ELSE WalkEntry(level - 1) \cap (12 .. 51)
        index == { b - RptShifts[level] :
                   b \in call.gva \cap (RptShifts[level] .. RptShifts[level] + 8) }
        mem == GuestMemory(call.kinds)
    IN  IF << table, index >> \in DOMAIN mem THEN mem[<< table, index >>]
        ELSE {}

\* the level at which the walk ends: the PDPT or the PD when its entry has
\* the PS bit, else the PT
WalkEnd ==
    IF 7 \in WalkEntry(2) THEN 2 ELSE IF 7 \in WalkEntry(3) THEN 3 ELSE 4

NotPresentError == << "pml4_pte is not present", "pdpt_pte is not present",
                      "pd_pte is not present", "pt_pte is not present" >>

\* C38: with guest paging disabled gva_to_gpa returns (gva, 0); with paging
\* enabled it throws for the first level, up to the one at which the walk
\* ends, whose entry is not present, and otherwise returns bits 12..51 of the
\* entry at which the walk ends together with the bits of gva below the page
\* size of that level, and the shift of that page size.
C38_GuestWalk ==
    pc = "gva_done" =>
        IF RegisterBit.paging \notin call.guest_cr0
        THEN result = [threw |-> "", first |-> call.gva, second |-> 0]
        ELSE LET absent == { l \in 1 .. WalkEnd : 0 \notin WalkEntry(l) }
                 shift == RptShifts[WalkEnd]
             IN  IF absent # {}
                 THEN \E l \in absent :
                         /\ \A k \in absent : l <= k
                         /\ result = [threw |-> NotPresentError[l]]
                 ELSE result =
                         [ threw |-> "",
                           first |-> (WalkEntry(WalkEnd) \cap (12 .. 51))
                                       \cup { b \in call.gva : b < shift },
                           second |-> shift ]

\* a 2 MiB page: the page directory entry has the PS bit, the result is its
\* frame with the low 21 bits of the address
C38_Witness ==
    /\ pc = "gva_done"
    /\ call.gva = {39, 30, 21, 20, 11}
    /\ call.kinds = << "table", "table", "large", "zero" >>
    /\ result = [ threw |-> "", first |-> {40, 22, 21, 20, 11},
                  second |-> 21 ]

\* the walk stops with an error at the PDPT, whose entry is not present
C38_WitnessNotPresent ==
    /\ pc = "gva_done"
    /\ RegisterBit.paging \in call.guest_cr0
    /\ call.kinds[1] = "large"
    /\ call.kinds[2] = "large_absent"
    /\ result = [threw |-> "pdpt_pte is not present"]

\* the map functions as stated: the page size and the access of each
StatedMapFunctions ==
    { << "map_1g_ro", "1g", "read_only" >>, << "map_2m_ro", "2m", "read_only" >>,
      << "map_4k_ro", "4k", "read_only" >>, << "map_1g_rw", "1g", "read_write" >>,
      << "map_2m_rw", "2m", "read_write" >>, << "map_4k_rw", "4k", "read_write" >>,
      << "map_1g_rwe", "1g", "read_write_execute" >>,
      << "map_2m_rwe", "2m", "read_write_execute" >>,
      << "map_4k_rwe", "4k", "read_write_execute" >> }

\* C39: no EPT map is set after construction, and the map set changes only
\* in set_eptp, which sets its argument, and in disable_ept, which sets none.
\* While none is set each of the nine map functions throws and leaves every
\* map as it was, gpa_to_hpa returns (gpa, 0) and gva_to_hpa returns what
\* gva_to_gpa returns. While a map is set a map function adds the mapping of
\* its size and access to that map and to no other, gpa_to_hpa returns the
\* translation of that map, and gva_to_hpa the translation by that map of the
\* address that gva_to_gpa returns.
C39_NoEptMapNoMapping ==
    /\ [](pc = "ept" /\ call.fn = "vcpu" => result.m_mmap = NULL)
    /\ [][ pc = "ept" /\ pc' = "ept" =>
            /\ call'.fn = "set_eptp" => result'.m_mmap = call'.map
            /\ call'.fn = "disable_ept" => result'.m_mmap = NULL
            /\ call'.fn \notin {"set_eptp", "disable_ept"} =>
                  result'.m_mmap = result.m_mmap
            /\ \A row \in StatedMapFunctions :
                  call'.fn = row[1] =>
                      IF result.m_mmap = NULL
                      THEN /\ result'.out.threw = "attempted map with EPT not set"
                           /\ result'.maps = result.maps
                      ELSE /\ result'.out.threw = ""
                           /\ result'.maps =
                                 [ result.maps EXCEPT ![result.m_mmap] =
                                     @ \cup { [ size |-> row[2], attr |-> row[3],
                                                gpa |-> call'.gpa,
                                                hpa |-> call'.hpa ] } ]
            /\ call'.fn \in {"gpa_to_hpa", "gva_to_hpa", "set_eptp",
                             "disable_ept"} => result'.maps = result.maps
            /\ call'.fn = "gpa_to_hpa" =>
                  result'.out =
                      IF result.m_mmap = NULL
                      THEN [threw |-> "", first |-> call'.gpa, second |-> 0]
                      ELSE virt_to_phys(result.maps[result.m_mmap], call'.gpa)
            /\ call'.fn = "gva_to_hpa" =>
                  LET gpa == gva_to_gpa(EptGuestMemory, call'.guest_cr0,
                                        GuestTables[1], call'.gva)
                  IN  result'.out =
                          IF result.m_mmap = NULL \/ gpa.threw # "" THEN gpa
                          ELSE virt_to_phys(result.maps[result.m_mmap],
                                            gpa.first)
         ]_vars

\* a map was set, a mapping made in it, and EPT disabled again: map_2m_rw
\* has thrown and the mapping made before is all that the maps hold
C39_Witness ==
    /\ pc = "ept"
    /\ call.fn = "map_2m_rw"
    /\ result.m_mmap = NULL
    /\ result.out = [threw |-> "attempted map with EPT not set"]
    /\ result.maps[2] = { [ size |-> "1g", attr |-> "read_only", gpa |-> {51},
                            hpa |-> {41} ] }
    /\ result.maps[1] = {}

\* the calls of platform_free that were handed the ring n
ReleasesOf(n) == { i \in DOMAIN result.calls : result.calls[i][1] = n }

\* the step is a call of free_mk_debug_ring
FreeMkDebugRingStep ==
    pc = "ring" /\ pc' = "ring"
        /\ Len(result'.calls) = Len(result.calls) + 1

\* C40: every call of platform_free made by free_mk_debug_ring passes
\* HYPERVISOR_DEBUG_RING_SIZE; a call leaves the pointer of the caller null;
\* a call on a null pointer passes null and releases nothing; and over any
\* sequence of calls no ring is handed to platform_free more than once, the
\* live rings being those allocated and not yet handed to it.
C40_RingFreedAtMostOnce ==
    /\ [](pc = "ring" =>
            /\ \A i \in DOMAIN result.calls :
                  result.calls[i][2] = HYPERVISOR_DEBUG_RING_SIZE
            /\ \A n \in 1 .. result.rings : Cardinality(ReleasesOf(n)) <= 1
            /\ result.heap = { << "mk_debug_ring", n >> :
                                 n \in { k \in 1 .. result.rings :
                                           ReleasesOf(k) = {} } })
    /\ [][ FreeMkDebugRingStep =>
            /\ result'.debug_ring = NULL
            /\ result'.calls[Len(result'.calls)][1] = result.debug_ring
            /\ result.debug_ring = NULL => result'.heap = result.heap
            /\ result.debug_ring # NULL =>
                  result'.heap
                      = result.heap \ { << "mk_debug_ring", result.debug_ring >> }
         ]_vars

\* a ring was allocated and free_mk_debug_ring called twice: the second call
\* passed null and the ring was released once
C40_Witness ==
    /\ pc = "ring"
    /\ result.rings = 1
    /\ result.calls = << << 1, HYPERVISOR_DEBUG_RING_SIZE >>,
                         << NULL, HYPERVISOR_DEBUG_RING_SIZE >> >>
    /\ result.debug_ring = NULL
    /\ result.heap = {}

====
